---- MODULE Spec2Model ----
(***************************************************************************)
(* Group-chat backend (woodiesgroup): the document store (users, groups,   *)
(* memberships, messages) and the request handlers of the auth, admin,     *)
(* group, group-member and message controllers.                            *)
(*                                                                         *)
(* Time is a logical clock: every handler that stamps a document           *)
(* (createdAt of a message, readAt of a receipt) does so at a new instant, *)
(* so two stamped writes of different requests never share a timestamp.    *)
(* A message's _id is its creation instant.                                *)
(***************************************************************************)
EXTENDS Integers, Sequences, FiniteSets, Bags, TLC

VARIABLES
    users,      \* User collection: id -> [state, role, assignedGroup]
    groups,     \* Group collection: id -> [state, name, isPublic, invitedUsers]
    members,    \* GroupMember collection: a bag of rows [user, group, role, isActive]
    messages,   \* Message collection in insertion order
    now,        \* logical clock
    inflight,   \* requests between two awaits (concurrent specification)
    hadAdmin,   \* history: groups that have had an active admin membership
    mainIds,    \* history: groups created under the name "Main Chat"
    last        \* the last request and its response

vars == <<users, groups, members, messages, now, inflight, hadAdmin, mainIds, last>>

(* ------------------------------ bounds -------------------------------- *)

MaxTime == 3          \* instants: writing requests per behaviour

UserOrder  == <<"u1", "u2", "u3">>       \* ids in order of allocation
GroupOrder == <<"g1", "g2">>
UserIds  == {UserOrder[i] : i \in DOMAIN UserOrder}
GroupIds == {GroupOrder[i] : i \in DOMAIN GroupOrder}
Names == {"Main Chat", "General"}        \* group names requests may carry
None == "none"                           \* null / undefined
\* state of an id: "absent" (not allocated yet), "live", "gone" (deleted; ids
\* are never reused)
NoUser == [state |-> "absent", role |-> None, assignedGroup |-> None]
NoGroup == [state |-> "absent", name |-> None, isPublic |-> FALSE, invitedUsers |-> <<>>,
            maxMembers |-> 0]
GoneUser == [NoUser EXCEPT !.state = "gone"]
GoneGroup == [NoGroup EXCEPT !.state = "gone"]

MAIN_CHAT == "Main Chat"
\* strings are sequences of characters; a generated system text
SystemText == <<"W", "e", "l", "c", "o", "m", "e">>

(* ------------------------------ helpers ------------------------------- *)

Live(coll, id) == coll[id].state = "live"

LiveUsers == {u \in UserIds : Live(users, u)}
LiveGroups == {g \in GroupIds : Live(groups, g)}

Rows == BagToSet(members)

RECURSIVE FirstFree(_, _, _)
\* the next unused ObjectId of a collection
FirstFree(order, coll, i) ==
    IF i > Len(order) THEN None
    ELSE IF coll[order[i]].state = "absent" THEN order[i]
    ELSE FirstFree(order, coll, i + 1)

RECURSIVE FirstMatch(_, _, _)
\* findOne over the Group collection in natural order
FirstMatch(order, P(_), i) ==
    IF i > Len(order) THEN None
    ELSE IF P(order[i]) THEN order[i]
    ELSE FirstMatch(order, P, i + 1)

Resp(op, u, g, status, info) ==
    [op |-> op, user |-> u, group |-> g, status |-> status, info |-> info]


SiteRoles == {"super_admin", "admin", "user"}
SignupRoles == {"admin", "user"}         \* roles drawn for new accounts

(* --------------------------- GroupMember store ------------------------ *)

\* GroupMember.findOne({ user, group })
FindMember(ms, u, g) == {r \in BagToSet(ms) : r.user = u /\ r.group = g}

NoUniqueIndex(ms, u, g) == TRUE

\* the unique compound index { user: 1, group: 1 }: an insert is accepted
\* only when no row of the collection has the same (user, group)
UniqueIndexAllows(ms, u, g) == FindMember(ms, u, g) = {}

\* GroupMember.create({ user, group, role }): isActive defaults to true
MemberRow(u, g, role) == [user |-> u, group |-> g, role |-> role, isActive |-> TRUE]

InsertMember(ms, row) == ms (+) SetToBag({row})

\* GroupMember.create: the store rejects the insert (E11000) when the unique
\* index forbids it
GroupMemberCreate(ms, row) ==
    IF UniqueIndexAllows(ms, row.user, row.group)
    THEN [ok |-> TRUE, members |-> InsertMember(ms, row)]
    ELSE [ok |-> FALSE, members |-> ms]

validateGroupMembershipAnyRow(u, g) ==
    \E r \in Rows : r.user = u /\ r.group = g

\* GroupMember.findOne({ user, group, isActive: true })
validateGroupMembership(u, g) ==
    \E r \in Rows : r.user = u /\ r.group = g /\ r.isActive

\* GroupMember.findOne({ user, group, role: 'admin' }): no isActive filter
FindAdminMembership(u, g) ==
    \E r \in Rows : r.user = u /\ r.group = g /\ r.role = "admin"

\* GroupMember.countDocuments({ group, role: 'admin', isActive: true })
adminCount(ms, g) ==
    LET S == {r \in BagToSet(ms) : r.group = g /\ r.role = "admin" /\ r.isActive}
        RECURSIVE Sum(_)
        Sum(T) == IF T = {} THEN 0
                  ELSE LET r == CHOOSE x \in T : TRUE
                       IN CopiesIn(r, ms) + Sum(T \ {r})
    IN Sum(S)

\* GroupMember.deleteMany(filter)
DeleteMembers(ms, P(_)) ==
    LET keep == {r \in BagToSet(ms) : ~P(r)}
    IN [r \in keep |-> ms[r]]

(* ----------------------------- Message store -------------------------- *)

\* a message document; content is the stored (trimmed) text, updatedAt the
\* instant of the last write (timestamps: true)
NewMessage(t, g, u, type, content) ==
    [id |-> t, group |-> g, sender |-> u, type |-> type, content |-> content,
     readBy |-> <<>>, updatedAt |-> t]

\* Message.deleteMany(filter) / findByIdAndDelete
DeleteMessages(msgs, P(_)) == SelectSeq(msgs, LAMBDA m : ~P(m))

GroupDataLimit == 50
\* getGroupData: Message.find({ group }).sort({ createdAt: 1 }).limit(50); the
\* stored sequence is in creation order
getGroupData(msgs, g) ==
    LET found == SelectSeq(msgs, LAMBDA m : m.group = g)
        n == IF Len(found) < GroupDataLimit THEN Len(found) ELSE GroupDataLimit
    IN [messages |-> [i \in 1..n |-> found[i].id]]

(* ------------------------------ Group store --------------------------- *)

DefaultMaxMembers == 50
MainChatMaxMembers == 1000
MinMaxMembers == 1
MaxMaxMembers == 1000

\* Math.min(Math.max(maxMembers || 50, 1), 1000); 0 stands for an absent field
clampMaxMembers(m) ==
    LET given == IF m = 0 THEN DefaultMaxMembers ELSE m
        atLeast == IF given < MinMaxMembers THEN MinMaxMembers ELSE given
    IN IF atLeast > MaxMaxMembers THEN MaxMaxMembers ELSE atLeast

\* a group created from a body without maxMembers
NewGroup(name, isPublic) ==
    [state |-> "live", name |-> name, isPublic |-> isPublic, invitedUsers |-> <<>>,
     maxMembers |-> clampMaxMembers(0)]

\* the Main Chat as getMainChatGroup and getMainChat create it
NewMainChat == [NewGroup(MAIN_CHAT, TRUE) EXCEPT !.maxMembers = MainChatMaxMembers]

NewUser(role, ag) == [state |-> "live", role |-> role, assignedGroup |-> ag]

\* Group.findOne({ name: 'Main Chat', isPublic: true }) or create it
getMainChatGroup(gs) ==
    LET found == FirstMatch(GroupOrder,
                     LAMBDA g : Live(gs, g) /\ gs[g].name = MAIN_CHAT /\ gs[g].isPublic, 1)
        fresh == FirstFree(GroupOrder, gs, 1)
    IN IF found # None THEN [id |-> found, groups |-> gs]
       ELSE IF fresh = None THEN [id |-> None, groups |-> gs]
       ELSE [id |-> fresh, groups |-> [gs EXCEPT ![fresh] = NewMainChat]]

\* a membership check that sets a deactivated row active again
ensureGroupMembershipReactivating(ms, u, g) ==
    IF FindMember(ms, u, g) = {}
    THEN GroupMemberCreate(ms, MemberRow(u, g, "member")).members
    ELSE LET r == CHOOSE x \in FindMember(ms, u, g) : TRUE
         IN (ms (-) SetToBag({r})) (+) SetToBag({[r EXCEPT !.isActive = TRUE]})

\* ensureGroupMembership: insert a 'member' row unless some row exists
ensureGroupMembership(ms, u, g) ==
    IF FindMember(ms, u, g) = {}
    THEN GroupMemberCreate(ms, MemberRow(u, g, "member")).members
    ELSE ms

(* ------------------------------ history ------------------------------- *)

AdminGroups(ms) ==
    {g \in GroupIds : \E r \in BagToSet(ms) : r.group = g /\ r.role = "admin" /\ r.isActive}

store == <<users, groups, members, messages>>

\* timestamps: true -- a write happens at a new instant; a behaviour's
\* writes stay within k instants
ClockWithin(k) ==
    /\ store' # store => now < k
    /\ now' = IF store' # store THEN now + 1 ELSE now

Clock == ClockWithin(MaxTime)

Ghosts ==
    /\ hadAdmin' = hadAdmin \cup AdminGroups(members')
    /\ mainIds' = mainIds \cup {g \in GroupIds : groups[g].state = "absent" /\ Live(groups', g)
                                                  /\ groups'[g].name = MAIN_CHAT}

History == Clock /\ Ghosts

(* ------------------------------- Init --------------------------------- *)

\* initializeDB: the seeded administrator is the only document
Init ==
    /\ users = [u \in UserIds |->
                  IF u = UserOrder[1] THEN NewUser("super_admin", None)
                  ELSE NoUser]
    /\ groups = [g \in GroupIds |-> NoGroup]
    /\ members = EmptyBag
    /\ messages = <<>>
    /\ now = 0
    /\ inflight = {}
    /\ hadAdmin = {}
    /\ mainIds = {}
    /\ last = Resp("init", None, None, 0, None)

(* ------------------------- authController.js -------------------------- *)

\* POST /api/auth/signup
signup(e, pwOk, role, ag) ==
    LET target == IF ag # None /\ Live(groups, ag) THEN ag ELSE None
        mc == getMainChatGroup(groups)
        final == IF target # None THEN target ELSE mc.id
        gs2 == IF target # None THEN groups ELSE mc.groups
        welcome == ag = None \/ gs2[final].name = MAIN_CHAT
    IN
    /\ IF ~pwOk THEN
          /\ last' = Resp("signup", e, ag, 400, None)
          /\ UNCHANGED <<users, groups, members, messages>>
       ELSE IF Live(users, e) THEN
          /\ last' = Resp("signup", e, ag, 409, None)
          /\ UNCHANGED <<users, groups, members, messages>>
       ELSE IF ag # None /\ ~Live(groups, ag) THEN
          /\ last' = Resp("signup", e, ag, 404, None)
          /\ UNCHANGED <<users, groups, members, messages>>
       ELSE
          /\ e = FirstFree(UserOrder, users, 1)
          /\ final # None
          /\ users' = [users EXCEPT ![e] = NewUser(role, ag)]
          /\ groups' = gs2
          /\ members' = ensureGroupMembership(members, e, final)
          /\ IF welcome
             THEN messages' = Append(messages, NewMessage(now + 1, final, e, "system", SystemText))
             ELSE UNCHANGED messages
          /\ last' = Resp("signup", e, final, 201, None)
    /\ UNCHANGED inflight
    /\ History

\* POST /api/auth/login
login(u, pwOk) ==
    LET ag == IF Live(users, u) THEN users[u].assignedGroup ELSE None
        \* populate('assignedGroup') yields null for a group that no longer exists
        target == IF ag # None /\ Live(groups, ag) THEN ag ELSE None
        mc == getMainChatGroup(groups)
        final == IF target # None THEN target ELSE mc.id
    IN
    /\ IF ~Live(users, u) \/ ~pwOk THEN
          /\ last' = Resp("login", u, None, 401, None)
          /\ UNCHANGED <<groups, members>>
       ELSE
          /\ final # None
          /\ groups' = IF target # None THEN groups ELSE mc.groups
          /\ members' = ensureGroupMembership(members, u, final)
          /\ last' = Resp("login", u, final, 200, getGroupData(messages, final))
    /\ UNCHANGED <<users, messages, inflight>>
    /\ History


(* ------------------------- adminController.js ------------------------- *)

checkAdminPermission(a) ==
    Live(users, a) /\ users[a].role \in {"super_admin", "admin"}

\* POST /api/admin/users
createUser(a, e, role, ag) ==
    /\ IF ~checkAdminPermission(a) \/ (ag # None /\ ~Live(groups, ag)) THEN
          /\ last' = Resp("createUser", a, ag, 403, None)
          /\ UNCHANGED <<users, members>>
       ELSE IF Live(users, e) THEN
          /\ last' = Resp("createUser", a, ag, 409, None)
          /\ UNCHANGED <<users, members>>
       ELSE
          /\ e = FirstFree(UserOrder, users, 1)
          /\ users' = [users EXCEPT ![e] = NewUser(role, ag)]
          /\ members' = IF ag # None
                        THEN GroupMemberCreate(members, MemberRow(e, ag, "member")).members
                        ELSE members
          /\ last' = Resp("createUser", a, ag, 201, None)
    /\ UNCHANGED <<groups, messages, inflight>>
    /\ History

\* PUT /api/admin/users/:userId (assignedGroup only; name, email, password and
\* role are left out of the request body)
updateUser(a, t, ag) ==
    /\ IF ~checkAdminPermission(a) THEN
          /\ last' = Resp("updateUser", a, ag, 403, None)
          /\ UNCHANGED users
       ELSE IF ~Live(users, t) THEN
          /\ last' = Resp("updateUser", a, ag, 404, None)
          /\ UNCHANGED users
       ELSE IF ag # None /\ ~Live(groups, ag) THEN
          /\ last' = Resp("updateUser", a, ag, 403, None)
          /\ UNCHANGED users
       ELSE
          /\ users' = [users EXCEPT ![t].assignedGroup = ag]
          /\ last' = Resp("updateUser", a, ag, 200, None)
    /\ UNCHANGED <<groups, members, messages, inflight>>
    /\ History

\* DELETE /api/admin/users/:userId
deleteUser(a, t) ==
    /\ IF ~checkAdminPermission(a) THEN
          /\ last' = Resp("deleteUser", a, None, 403, None)
          /\ UNCHANGED <<users, members, messages>>
       ELSE IF t = a THEN
          /\ last' = Resp("deleteUser", a, None, 400, None)
          /\ UNCHANGED <<users, members, messages>>
       ELSE IF ~Live(users, t) THEN
          /\ last' = Resp("deleteUser", a, None, 404, None)
          /\ UNCHANGED <<users, members, messages>>
       ELSE
          /\ members' = DeleteMembers(members, LAMBDA r : r.user = t)
          /\ messages' = DeleteMessages(messages, LAMBDA m : m.sender = t)
          /\ users' = [users EXCEPT ![t] = GoneUser]
          /\ last' = Resp("deleteUser", a, None, 200, None)
    /\ UNCHANGED <<groups, inflight>>
    /\ History

(* ------------------------- groupController.js ------------------------- *)

PublicInputs == {"undefined", "true", "false"}   \* isPublic of a request body

\* validateGroupName: no other group carries the name
validateGroupName(gs, name, excludeId) ==
    ~\E g \in GroupIds : g # excludeId /\ Live(gs, g) /\ gs[g].name = name

\* the update document built from the request body
ApplyUpdate(grp, name, isPublic) ==
    [grp EXCEPT !.name = IF name # None THEN name ELSE @,
                !.isPublic = IF isPublic = "undefined" THEN @ ELSE isPublic = "true"]

\* POST /api/groups/create-public
createGroupPublic(name, isPublic) ==
    LET fresh == FirstFree(GroupOrder, groups, 1) IN
    /\ IF ~validateGroupName(groups, name, None) THEN
          /\ last' = Resp("createGroupPublic", None, None, 409, None)
          /\ UNCHANGED groups
       ELSE
          /\ fresh # None
          /\ groups' = [groups EXCEPT ![fresh] = NewGroup(name, isPublic # "false")]
          /\ last' = Resp("createGroupPublic", None, fresh, 201, None)
    /\ UNCHANGED <<users, members, messages, inflight>>
    /\ History

\* PUT /api/groups/:groupId/update-public
updateGroupPublic(g, name, isPublic) ==
    /\ IF ~Live(groups, g) THEN
          /\ last' = Resp("updateGroupPublic", None, g, 404, None)
          /\ UNCHANGED groups
       ELSE IF name # None /\ name # groups[g].name /\ ~validateGroupName(groups, name, g) THEN
          /\ last' = Resp("updateGroupPublic", None, g, 409, None)
          /\ UNCHANGED groups
       ELSE
          /\ groups' = [groups EXCEPT ![g] = ApplyUpdate(@, name, isPublic)]
          /\ last' = Resp("updateGroupPublic", None, g, 200, None)
    /\ UNCHANGED <<users, members, messages, inflight>>
    /\ History

\* the three deleteMany / findByIdAndDelete calls of a group deletion
CascadeDelete(g) ==
    /\ messages' = DeleteMessages(messages, LAMBDA m : m.group = g)
    /\ members' = DeleteMembers(members, LAMBDA r : r.group = g)
    /\ groups' = [groups EXCEPT ![g] = GoneGroup]

\* DELETE /api/groups/:groupId/delete-public
deleteGroupPublic(g) ==
    /\ IF ~Live(groups, g) THEN
          /\ last' = Resp("deleteGroupPublic", None, g, 404, None)
          /\ UNCHANGED <<groups, members, messages>>
       ELSE IF groups[g].name = MAIN_CHAT THEN
          /\ last' = Resp("deleteGroupPublic", None, g, 400, None)
          /\ UNCHANGED <<groups, members, messages>>
       ELSE
          /\ CascadeDelete(g)
          /\ last' = Resp("deleteGroupPublic", None, g, 200, None)
    /\ UNCHANGED <<users, inflight>>
    /\ History

\* POST /api/groups
createGroup(u, name, isPublic) ==
    LET fresh == FirstFree(GroupOrder, groups, 1) IN
    /\ IF ~validateGroupName(groups, name, None) THEN
          /\ last' = Resp("createGroup", u, None, 409, None)
          /\ UNCHANGED <<groups, members, messages>>
       ELSE
          /\ fresh # None
          /\ groups' = [groups EXCEPT ![fresh] = NewGroup(name, isPublic = "true")]
          /\ members' = GroupMemberCreate(members, MemberRow(u, fresh, "admin")).members
          /\ messages' = Append(messages, NewMessage(now + 1, fresh, u, "system", SystemText))
          /\ last' = Resp("createGroup", u, fresh, 201, None)
    /\ UNCHANGED <<users, inflight>>
    /\ History

\* GET /api/groups/main-chat
getMainChat(u) ==
    LET found == FirstMatch(GroupOrder,
                     LAMBDA g : Live(groups, g) /\ groups[g].name = MAIN_CHAT, 1)
        fresh == FirstFree(GroupOrder, groups, 1)
        id == IF found # None THEN found ELSE fresh
    IN
    /\ id # None
    /\ groups' = IF found # None THEN groups
                 ELSE [groups EXCEPT ![fresh] = NewMainChat]
    /\ members' = ensureGroupMembership(members, u, id)
    /\ last' = Resp("getMainChat", u, id, 200, getGroupData(messages, id))
    /\ UNCHANGED <<users, messages, inflight>>
    /\ History

\* PUT /api/groups/:groupId
updateGroup(u, g, name, isPublic) ==
    /\ IF ~Live(groups, g) THEN
          /\ last' = Resp("updateGroup", u, g, 404, None)
          /\ UNCHANGED groups
       ELSE IF ~FindAdminMembership(u, g) THEN
          /\ last' = Resp("updateGroup", u, g, 403, None)
          /\ UNCHANGED groups
       ELSE IF name # None /\ name # groups[g].name /\ ~validateGroupName(groups, name, g) THEN
          /\ last' = Resp("updateGroup", u, g, 409, None)
          /\ UNCHANGED groups
       ELSE
          /\ groups' = [groups EXCEPT ![g] = ApplyUpdate(@, name, isPublic)]
          /\ last' = Resp("updateGroup", u, g, 200, None)
    /\ UNCHANGED <<users, members, messages, inflight>>
    /\ History

\* DELETE /api/groups/:groupId
deleteGroup(u, g) ==
    /\ IF ~Live(groups, g) THEN
          /\ last' = Resp("deleteGroup", u, g, 404, None)
          /\ UNCHANGED <<groups, members, messages>>
       ELSE IF ~FindAdminMembership(u, g) THEN
          /\ last' = Resp("deleteGroup", u, g, 403, None)
          /\ UNCHANGED <<groups, members, messages>>
       ELSE IF groups[g].name = MAIN_CHAT THEN
          /\ last' = Resp("deleteGroup", u, g, 400, None)
          /\ UNCHANGED <<groups, members, messages>>
       ELSE
          /\ CascadeDelete(g)
          /\ last' = Resp("deleteGroup", u, g, 200, None)
    /\ UNCHANGED <<users, inflight>>
    /\ History


(* ---------------------- groupMemberController.js ---------------------- *)

Invited(grp, u, statuses) ==
    {i \in DOMAIN grp.invitedUsers :
        grp.invitedUsers[i].user = u /\ grp.invitedUsers[i].status \in statuses}

InviteStatuses == {"pending", "accepted", "rejected"}

Min(S) == CHOOSE x \in S : \A y \in S : x <= y

\* POST /api/group-members/:groupId/invite  (t: the account the email names)
inviteToGroup(a, g, t) ==
    /\ IF ~Live(groups, g) THEN
          /\ last' = Resp("inviteToGroup", a, g, 404, None)
          /\ UNCHANGED groups
       ELSE IF ~FindAdminMembership(a, g) THEN
          /\ last' = Resp("inviteToGroup", a, g, 403, None)
          /\ UNCHANGED groups
       ELSE IF ~Live(users, t) THEN
          /\ last' = Resp("inviteToGroup", a, g, 404, None)
          /\ UNCHANGED groups
       ELSE IF FindMember(members, t, g) # {} THEN
          /\ last' = Resp("inviteToGroup", a, g, 409, None)
          /\ UNCHANGED groups
       ELSE IF Invited(groups[g], t, InviteStatuses) # {} THEN
          /\ last' = Resp("inviteToGroup", a, g, 409, None)
          /\ UNCHANGED groups
       ELSE
          /\ groups' = [groups EXCEPT ![g].invitedUsers =
                           Append(@, [user |-> t, status |-> "pending"])]
          /\ last' = Resp("inviteToGroup", a, g, 200, None)
    /\ UNCHANGED <<users, members, messages, inflight>>
    /\ History

\* POST /api/group-members/:groupId/accept
acceptInvitation(u, g) ==
    LET pending == IF Live(groups, g) THEN Invited(groups[g], u, {"pending"}) ELSE {}
        created == GroupMemberCreate(members, MemberRow(u, g, "member"))
    IN
    /\ IF ~Live(groups, g) \/ pending = {} THEN
          /\ last' = Resp("acceptInvitation", u, g, 404, None)
          /\ UNCHANGED <<groups, members>>
       ELSE IF ~created.ok THEN
          \* the rejected insert lands in the catch block
          /\ last' = Resp("acceptInvitation", u, g, 500, None)
          /\ UNCHANGED <<groups, members>>
       ELSE
          /\ members' = created.members
          /\ groups' = [groups EXCEPT ![g].invitedUsers[Min(pending)].status = "accepted"]
          /\ last' = Resp("acceptInvitation", u, g, 200, None)
    /\ UNCHANGED <<users, messages, inflight>>
    /\ History

\* GroupMember.findOneAndUpdate({ user, group }, { isActive: false })
SetInactive(ms, t, g) ==
    IF FindMember(ms, t, g) = {} THEN ms
    ELSE LET r == CHOOSE x \in FindMember(ms, t, g) : TRUE
         IN (ms (-) SetToBag({r})) (+) SetToBag({[r EXCEPT !.isActive = FALSE]})

\* the self-removal guard: the request is refused when the caller removes
\* themself and the group counts exactly one active admin
LastAdminGuard(a, g, t) == t = a /\ adminCount(members, g) = 1

\* DELETE /api/group-members/:groupId/members/:userId
removeMember(a, g, t) ==
    /\ IF ~FindAdminMembership(a, g) THEN
          /\ last' = Resp("removeMember", a, g, 403, None)
          /\ UNCHANGED members
       ELSE IF LastAdminGuard(a, g, t) THEN
          /\ last' = Resp("removeMember", a, g, 400, None)
          /\ UNCHANGED members
       ELSE
          /\ members' = SetInactive(members, t, g)
          /\ last' = Resp("removeMember", a, g, 200, None)
    /\ UNCHANGED <<users, groups, messages, inflight>>
    /\ History


\* a membership row with its joinedAt (Date.now at the insert)
JoinedRow(u, g, role, active, t) ==
    [user |-> u, group |-> g, role |-> role, isActive |-> active, joinedAt |-> t]

\* the characters of a role, and their order in a string comparison
RoleText(role) ==
    CASE role = "admin" -> <<"a", "d", "m", "i", "n">>
      [] role = "moderator" -> <<"m", "o", "d", "e", "r", "a", "t", "o", "r">>
      [] role = "member" -> <<"m", "e", "m", "b", "e", "r">>
Alphabet == <<"a", "b", "c", "d", "e", "f", "g", "h", "i", "j", "k", "l", "m",
              "n", "o", "p", "q", "r", "s", "t", "u", "v", "w", "x", "y", "z">>
CharCode(c) == CHOOSE k \in DOMAIN Alphabet : Alphabet[k] = c

RECURSIVE StringLess(_, _)
\* the store's comparison of two strings
StringLess(a, b) ==
    IF b = <<>> THEN FALSE
    ELSE IF a = <<>> THEN TRUE
    ELSE IF Head(a) # Head(b) THEN CharCode(Head(a)) < CharCode(Head(b))
    ELSE StringLess(Tail(a), Tail(b))

\* sort({ role: -1, joinedAt: 1 }): role descending, then joinedAt ascending
SortsBefore(r1, r2) ==
    \/ StringLess(RoleText(r2.role), RoleText(r1.role))
    \/ r1.role = r2.role /\ r1.joinedAt < r2.joinedAt

RECURSIVE SortMembers(_)
SortMembers(S) ==
    IF S = {} THEN <<>>
    ELSE LET first == CHOOSE r \in S : \A o \in S \ {r} : SortsBefore(r, o)
         IN <<first>> \o SortMembers(S \ {first})

\* GET /api/group-members/:groupId/members
getGroupMembers(u, g) ==
    /\ IF ~validateGroupMembership(u, g) THEN
          last' = Resp("getGroupMembers", u, g, 403, <<>>)
       ELSE
          last' = Resp("getGroupMembers", u, g, 200,
                       SortMembers({r \in Rows : r.group = g /\ r.isActive}))
    /\ UNCHANGED <<users, groups, members, messages, inflight>>
    /\ History

(* ------------------------ messageController.js ------------------------ *)

MaxContentLength == 1000
DefaultPage == 1
DefaultLimit == 50
MaxLimit == 100

Repeat(c, n) == [i \in 1..n |-> c]

RECURSIVE TrimStart(_)
TrimStart(c) == IF c # <<>> /\ Head(c) = " " THEN TrimStart(Tail(c)) ELSE c

RECURSIVE TrimEnd(_)
TrimEnd(c) == IF c # <<>> /\ c[Len(c)] = " " THEN TrimEnd(SubSeq(c, 1, Len(c) - 1)) ELSE c

\* String.prototype.trim
Trim(c) == TrimEnd(TrimStart(c))

\* request bodies' content
Contents == {<<" ", "h", "i", " ">>, <<" ", " ">>, Repeat("x", MaxContentLength + 1)}
\* request bodies' messageType
TypeInputs == {"text", "video"}

validateMessageContent(c) ==
    IF Len(Trim(c)) = 0 THEN [ok |-> FALSE, value |-> <<>>]
    ELSE IF Len(c) > MaxContentLength THEN [ok |-> FALSE, value |-> <<>>]
    ELSE [ok |-> TRUE, value |-> Trim(c)]

validateMessageType(t) == t \in {"text", "image", "file", "system"}

InGroup(msgs, g) == SelectSeq(msgs, LAMBDA m : m.group = g)

RECURSIVE SortNewestFirst(_)
\* sort({ createdAt: -1 }): a message's _id is its creation instant
SortNewestFirst(msgs) ==
    IF msgs = <<>> THEN <<>>
    ELSE LET i == CHOOSE k \in DOMAIN msgs : \A j \in DOMAIN msgs : msgs[j].id <= msgs[k].id
         IN <<msgs[i]>> \o SortNewestFirst(SubSeq(msgs, 1, i - 1) \o SubSeq(msgs, i + 1, Len(msgs)))

SkipLimitOverlap(s, n, k) ==
    SubSeq(s, IF n > 0 THEN n ELSE 1, IF n + k < Len(s) THEN n + k ELSE Len(s))

\* skip(n).limit(k) of a cursor
SkipLimit(s, n, k) ==
    SubSeq(s, n + 1, IF n + k < Len(s) THEN n + k ELSE Len(s))

KeepOrder(s) == s

Reverse(s) == [i \in 1..Len(s) |-> s[Len(s) + 1 - i]]

Floor(a, b) == a \div b

\* Math.ceil(a / b) for a >= 0, b > 0
Ceil(a, b) == IF a % b = 0 THEN a \div b ELSE (a \div b) + 1

getMessagesWithPagination(msgs, g, page, limit) ==
    LET skip == (page - 1) * limit
        found == SkipLimit(SortNewestFirst(InGroup(msgs, g)), skip, limit)
        totalCount == Len(InGroup(msgs, g))
    IN [messages |-> Reverse(found),
        pagination |-> [currentPage |-> page,
                        totalPages |-> Ceil(totalCount, limit),
                        totalMessages |-> totalCount,
                        hasNext |-> page < Ceil(totalCount, limit),
                        hasPrev |-> page > 1]]

\* $addToSet: the element is appended unless an equal element is present
AddToSet(s, e) == IF \E i \in DOMAIN s : s[i] = e THEN s ELSE Append(s, e)

\* findByIdAndUpdate(messageId, { $addToSet: { readBy: { user, readAt } } })
markMessageAsRead(msgs, id, u, t) ==
    [i \in DOMAIN msgs |->
        IF msgs[i].id = id
        THEN [msgs[i] EXCEPT !.readBy = AddToSet(@, [user |-> u, readAt |-> t]),
                             !.updatedAt = t]
        ELSE msgs[i]]

RECURSIVE MarkAll(_, _, _, _)
MarkAll(msgs, ids, u, t) ==
    IF ids = <<>> THEN msgs
    ELSE MarkAll(markMessageAsRead(msgs, Head(ids), u, t), Tail(ids), u, t)

Ids(s) == [i \in DOMAIN s |-> s[i].id]

countUnreadAnySender(msgs, g, u) ==
    Len(SelectSeq(msgs, LAMBDA m :
            /\ m.group = g
            /\ \A i \in DOMAIN m.readBy : m.readBy[i].user # u))

countUnreadAnyReceipt(msgs, g, u) ==
    Len(SelectSeq(msgs, LAMBDA m : m.group = g /\ m.sender # u))

\* countDocuments({ group, 'readBy.user': { $ne: user }, sender: { $ne: user } })
countUnread(msgs, g, u) ==
    Len(SelectSeq(msgs, LAMBDA m :
            /\ m.group = g
            /\ \A i \in DOMAIN m.readBy : m.readBy[i].user # u
            /\ m.sender # u))


\* does user u hold a receipt on message m
HasReceipt(m, u) == \E i \in DOMAIN m.readBy : m.readBy[i].user = u

\* an active membership row, as the data model defines it
ActiveMember(u, g) == \E r \in Rows : r.user = u /\ r.group = g /\ r.isActive = TRUE

\* a send that does not look the group up
sendMessageAnyGroup(u, g, content, type) ==
    LET v == validateMessageContent(content)
        t == now + 1
        created == Append(messages, NewMessage(t, g, u, type, v.value))
        was == ActiveMember(u, g)
    IN
    /\ IF ~v.ok \/ ~validateMessageType(type) THEN
          /\ last' = Resp("sendMessage", u, g, 400, [valid |-> FALSE, active |-> was])
          /\ UNCHANGED messages
       ELSE IF ~validateGroupMembership(u, g) THEN
          /\ last' = Resp("sendMessage", u, g, 403, [valid |-> TRUE, active |-> was])
          /\ UNCHANGED messages
       ELSE
          /\ messages' = markMessageAsRead(created, t, u, t)
          /\ last' = Resp("sendMessage", u, g, 201,
                          [valid |-> TRUE, active |-> was, id |-> t, readBy |-> {u}])
    /\ UNCHANGED <<users, groups, members, inflight>>
    /\ History

\* POST /api/messages/:groupId/send
sendMessage(u, g, content, type) ==
    LET v == validateMessageContent(content)
        t == now + 1
        created == Append(messages, NewMessage(t, g, u, type, v.value))
        was == ActiveMember(u, g)
    IN
    /\ IF ~v.ok \/ ~validateMessageType(type) THEN
          /\ last' = Resp("sendMessage", u, g, 400, [valid |-> FALSE, active |-> was])
          /\ UNCHANGED messages
       ELSE IF ~validateGroupMembership(u, g) THEN
          /\ last' = Resp("sendMessage", u, g, 403, [valid |-> TRUE, active |-> was])
          /\ UNCHANGED messages
       ELSE IF ~Live(groups, g) THEN
          /\ last' = Resp("sendMessage", u, g, 404, [valid |-> TRUE, active |-> was])
          /\ UNCHANGED messages
       ELSE
          /\ messages' = markMessageAsRead(created, t, u, t)
          /\ last' = Resp("sendMessage", u, g, 201,
                          [valid |-> TRUE, active |-> was, id |-> t, readBy |-> {u}])
    /\ UNCHANGED <<users, groups, members, inflight>>
    /\ History

MaxLog == 4           \* messages stored before a behaviour of the page requests
MaxPageTime == 1      \* instants of a behaviour of the page requests
\* req.query.page and req.query.limit after parseInt; 0 stands for an absent
\* or non-numeric parameter as well
PageInputs == (0 - 1)..(MaxLog + 1)
LimitInputs == ((0 - 1)..MaxLog) \cup {MaxLimit, MaxLimit + 1}

\* a listing that marks every message of the group, not only its page
getGroupMessagesMarkingGroup(u, g, pageIn, limitIn) ==
    LET page == IF pageIn = 0 THEN DefaultPage ELSE pageIn      \* parseInt(..) || 1
        limit == IF limitIn = 0 THEN DefaultLimit ELSE limitIn  \* parseInt(..) || 50
        valid == ~(page < 1 \/ limit < 1 \/ limit > MaxLimit)
        res == getMessagesWithPagination(messages, g, page, limit)
        t == now + 1
        was == ActiveMember(u, g)
    IN
    /\ IF ~valid THEN
          /\ last' = Resp("getGroupMessages", u, g, 400, [valid |-> FALSE, active |-> was])
          /\ UNCHANGED messages
       ELSE IF ~validateGroupMembership(u, g) THEN
          /\ last' = Resp("getGroupMessages", u, g, 403, [valid |-> TRUE, active |-> was])
          /\ UNCHANGED messages
       ELSE IF ~Live(groups, g) THEN
          /\ last' = Resp("getGroupMessages", u, g, 404, [valid |-> TRUE, active |-> was])
          /\ UNCHANGED messages
       ELSE
          /\ messages' = MarkAll(messages, Ids(InGroup(messages, g)), u, t)
          /\ last' = Resp("getGroupMessages", u, g, 200,
                          [valid |-> TRUE, active |-> was, page |-> page, limit |-> limit,
                           messages |-> Ids(res.messages), pagination |-> res.pagination])
    /\ UNCHANGED <<users, groups, members, inflight>>
    /\ History

\* GET /api/messages/:groupId/messages?page=&limit=
getGroupMessages(u, g, pageIn, limitIn) ==
    LET page == IF pageIn = 0 THEN DefaultPage ELSE pageIn      \* parseInt(..) || 1
        limit == IF limitIn = 0 THEN DefaultLimit ELSE limitIn  \* parseInt(..) || 50
        valid == ~(page < 1 \/ limit < 1 \/ limit > MaxLimit)
        res == getMessagesWithPagination(messages, g, page, limit)
        t == now + 1
        was == ActiveMember(u, g)
    IN
    /\ IF ~valid THEN
          /\ last' = Resp("getGroupMessages", u, g, 400, [valid |-> FALSE, active |-> was])
          /\ UNCHANGED messages
       ELSE IF ~validateGroupMembership(u, g) THEN
          /\ last' = Resp("getGroupMessages", u, g, 403, [valid |-> TRUE, active |-> was])
          /\ UNCHANGED messages
       ELSE IF ~Live(groups, g) THEN
          /\ last' = Resp("getGroupMessages", u, g, 404, [valid |-> TRUE, active |-> was])
          /\ UNCHANGED messages
       ELSE
          /\ messages' = MarkAll(messages, Ids(res.messages), u, t)
          /\ last' = Resp("getGroupMessages", u, g, 200,
                          [valid |-> TRUE, active |-> was, page |-> page, limit |-> limit,
                           messages |-> Ids(res.messages), pagination |-> res.pagination])
    /\ UNCHANGED <<users, groups, members, inflight>>
    /\ History

\* GET /api/messages/:groupId/unread-count
getUnreadMessageCount(u, g) ==
    LET was == ActiveMember(u, g) IN
    /\ IF ~validateGroupMembership(u, g) THEN
          last' = Resp("getUnreadMessageCount", u, g, 403, [valid |-> TRUE, active |-> was])
       ELSE
          last' = Resp("getUnreadMessageCount", u, g, 200,
                       [valid |-> TRUE, active |-> was,
                        unreadCount |-> countUnread(messages, g, u)])
    /\ UNCHANGED <<users, groups, members, messages, inflight>>
    /\ History

MaxIds == 2           \* length of a messageIds array
MaxMsgTime == 2       \* instants of a behaviour of the message requests
\* a message created at the last instant cannot be marked later
IdLists == UNION {[1..n -> 0..(MaxMsgTime - 1)] : n \in 0..MaxIds}

\* POST /api/messages/:groupId/mark-read
markMessagesAsRead(u, g, messageIds) ==
    LET t == now + 1
        was == ActiveMember(u, g)
        marked == MarkAll(messages, messageIds, u, t)
        newly == {i \in DOMAIN messages : ~HasReceipt(messages[i], u) /\ HasReceipt(marked[i], u)}
        cleared == {i \in newly : messages[i].group = g /\ messages[i].sender # u}
    IN
    /\ IF Len(messageIds) = 0 THEN
          /\ last' = Resp("markMessagesAsRead", u, g, 400, [valid |-> FALSE, active |-> was])
          /\ UNCHANGED messages
       ELSE IF ~validateGroupMembership(u, g) THEN
          /\ last' = Resp("markMessagesAsRead", u, g, 403, [valid |-> TRUE, active |-> was])
          /\ UNCHANGED messages
       ELSE
          /\ messages' = marked
          /\ last' = Resp("markMessagesAsRead", u, g, 200,
                          [valid |-> TRUE, active |-> was,
                           markedCount |-> Len(messageIds),
                           unreadBefore |-> countUnread(messages, g, u),
                           newly |-> Cardinality(newly),
                           cleared |-> Cardinality(cleared)])
    /\ UNCHANGED <<users, groups, members, inflight>>
    /\ History

\* a deletion open to every active member of the message's group
deleteMessageAnyMember(u, id) ==
    LET found == {i \in DOMAIN messages : messages[i].id = id}
        m == messages[CHOOSE i \in found : TRUE]
        membership == \E r \in Rows : r.user = u /\ r.group = m.group /\ r.isActive
    IN
    /\ IF found = {} THEN
          /\ last' = Resp("deleteMessage", u, None, 404, None)
          /\ UNCHANGED messages
       ELSE IF m.sender # u /\ ~membership THEN
          /\ last' = Resp("deleteMessage", u, m.group, 403, None)
          /\ UNCHANGED messages
       ELSE
          /\ messages' = DeleteMessages(messages, LAMBDA x : x.id = id)
          /\ last' = Resp("deleteMessage", u, m.group, 200, None)
    /\ UNCHANGED <<users, groups, members, inflight>>
    /\ History

\* DELETE /api/messages/:messageId
deleteMessage(u, id) ==
    LET found == {i \in DOMAIN messages : messages[i].id = id}
        m == messages[CHOOSE i \in found : TRUE]
        adminMembership == \E r \in Rows : r.user = u /\ r.group = m.group
                                            /\ r.role = "admin" /\ r.isActive
    IN
    /\ IF found = {} THEN
          /\ last' = Resp("deleteMessage", u, None, 404, None)
          /\ UNCHANGED messages
       ELSE IF m.sender # u /\ ~adminMembership THEN
          /\ last' = Resp("deleteMessage", u, m.group, 403, None)
          /\ UNCHANGED messages
       ELSE
          /\ messages' = DeleteMessages(messages, LAMBDA x : x.id = id)
          /\ last' = Resp("deleteMessage", u, m.group, 200, None)
    /\ UNCHANGED <<users, groups, members, inflight>>
    /\ History

\* Message.findByIdAndUpdate(messageId, { content, updatedAt })
UpdateContent(msgs, id, content, t) ==
    [i \in DOMAIN msgs |->
        IF msgs[i].id = id THEN [msgs[i] EXCEPT !.content = content, !.updatedAt = t]
        ELSE msgs[i]]

\* an edit open to the admins of the message's group as well, as deleteMessage is
editMessageOrAdmin(u, id, content) ==
    LET found == {i \in DOMAIN messages : messages[i].id = id}
        m == messages[CHOOSE i \in found : TRUE]
        v == validateMessageContent(content)
        adminMembership == \E r \in Rows : r.user = u /\ r.group = m.group
                                            /\ r.role = "admin" /\ r.isActive
    IN
    /\ IF found = {} THEN
          /\ last' = Resp("editMessage", u, None, 404, [valid |-> v.ok, id |-> id])
          /\ UNCHANGED messages
       ELSE IF m.sender # u /\ ~adminMembership THEN
          /\ last' = Resp("editMessage", u, m.group, 403, [valid |-> v.ok, id |-> id])
          /\ UNCHANGED messages
       ELSE IF ~v.ok THEN
          /\ last' = Resp("editMessage", u, m.group, 400, [valid |-> FALSE, id |-> id])
          /\ UNCHANGED messages
       ELSE
          /\ messages' = UpdateContent(messages, id, v.value, now + 1)
          /\ last' = Resp("editMessage", u, m.group, 200, [valid |-> TRUE, id |-> id])
    /\ UNCHANGED <<users, groups, members, inflight>>
    /\ History

\* PUT /api/messages/:messageId, the handler
editMessage(u, id, content) ==
    LET found == {i \in DOMAIN messages : messages[i].id = id}
        m == messages[CHOOSE i \in found : TRUE]
        v == validateMessageContent(content)
    IN
    /\ IF found = {} THEN
          /\ last' = Resp("editMessage", u, None, 404, [valid |-> v.ok, id |-> id])
          /\ UNCHANGED messages
       ELSE IF m.sender # u THEN
          /\ last' = Resp("editMessage", u, m.group, 403, [valid |-> v.ok, id |-> id])
          /\ UNCHANGED messages
       ELSE IF ~v.ok THEN
          /\ last' = Resp("editMessage", u, m.group, 400, [valid |-> FALSE, id |-> id])
          /\ UNCHANGED messages
       ELSE
          /\ messages' = UpdateContent(messages, id, v.value, now + 1)
          /\ last' = Resp("editMessage", u, m.group, 200, [valid |-> TRUE, id |-> id])
    /\ UNCHANGED <<users, groups, members, inflight>>
    /\ History

(* --------------- middleware/validation.js and the routes -------------- *)

\* a validation that cuts a long text down instead of refusing it
validateContentBodyTruncating(content) ==
    LET trimmed == Trim(content)
    IN [ok |-> Len(trimmed) >= 1,
        content |-> IF Len(trimmed) > MaxContentLength
                    THEN SubSeq(trimmed, 1, MaxContentLength) ELSE trimmed]

\* body('content').trim().notEmpty().isLength({ min: 1, max: 1000 }): the
\* sanitizer replaces the body's content by the trimmed text
validateContentBody(content) ==
    LET trimmed == Trim(content)
    IN [ok |-> Len(trimmed) >= 1 /\ Len(trimmed) <= MaxContentLength, content |-> trimmed]

\* validateSendMessage; messageType is optional
validateSendMessage(content, type) ==
    [ok |-> /\ validateContentBody(content).ok
            /\ (type = "undefined" \/ type \in {"text", "image", "file", "system"}),
     content |-> validateContentBody(content).content]

\* validateEditMessage
validateEditMessage(content) == validateContentBody(content)

\* router.post('/:groupId/send', validateSendMessage, handleValidationErrors,
\* sendMessage); the handler's messageType defaults to 'text'
PostSend(u, g, content, type) ==
    LET checked == validateSendMessage(content, type) IN
    IF ~checked.ok THEN
        /\ last' = Resp("sendMessage", u, g, 400,
                        [valid |-> FALSE, active |-> ActiveMember(u, g)])
        /\ UNCHANGED <<users, groups, members, messages, inflight>>
        /\ History
    ELSE sendMessage(u, g, checked.content, IF type = "undefined" THEN "text" ELSE type)

\* router.put('/:messageId', validateEditMessage, handleValidationErrors,
\* editMessage)
PutMessage(u, id, content) ==
    LET checked == validateEditMessage(content) IN
    IF ~checked.ok THEN
        /\ last' = Resp("editMessage", u, None, 400, [valid |-> FALSE, id |-> id])
        /\ UNCHANGED <<users, groups, members, messages, inflight>>
        /\ History
    ELSE editMessage(u, id, checked.content)

(* ------------- the joining requests, one await at a time -------------- *)

MaxInflight == 2      \* requests in progress at once
MaxJoinTime == 3      \* instants of a behaviour of the joining requests
MaxFlightTime == 4    \* instants of a behaviour of requests around a deletion
Slots == 1..MaxInflight

\* a request between two awaits: its handler, its caller (or the account it
\* creates), the group it has resolved, the await it is about to make, and
\* the request body's assignedGroup / name
Idle == [op |-> None, user |-> None, group |-> None, pc |-> None, arg |-> None]
Req(op, u, g, pc, arg) == [op |-> op, user |-> u, group |-> g, pc |-> pc, arg |-> arg]

\* a new request takes the first free slot
Accepts(s) == inflight[s] = Idle /\ \A t \in Slots : t < s => inflight[t] # Idle

HistoryJoin == ClockWithin(MaxFlightTime) /\ Ghosts

\* res.status(..).json(..): the request leaves its slot
Respond(s, status, info) ==
    /\ inflight' = [inflight EXCEPT ![s] = Idle]
    /\ last' = Resp(inflight[s].op, inflight[s].user, inflight[s].group, status, info)

Goto(s, pc) == inflight' = [inflight EXCEPT ![s].pc = pc] /\ UNCHANGED last

\* the status a handler's catch block answers for a rejected insert (E11000)
DuplicateKeyStatus(op) == IF op \in {"signup", "createUser", "createGroup"} THEN 409 ELSE 500

\* POST /api/auth/login up to the password check
BeginLogin(s, u, pwOk) ==
    LET ag == users[u].assignedGroup
        target == IF ag # None /\ Live(groups, ag) THEN ag ELSE None
    IN
    /\ Accepts(s)
    /\ IF ~Live(users, u) \/ ~pwOk THEN
          /\ last' = Resp("login", u, None, 401, None)
          /\ UNCHANGED inflight
       ELSE
          /\ inflight' = [inflight EXCEPT ![s] =
                  IF target # None THEN Req("login", u, target, "GroupMember.findOne", None)
                  ELSE Req("login", u, None, "Group.findOne", None)]
          /\ UNCHANGED last
    /\ UNCHANGED <<users, groups, members, messages>>
    /\ HistoryJoin

\* GET /api/groups/main-chat after authentication
BeginGetMainChat(s, u) ==
    /\ Accepts(s)
    /\ inflight' = [inflight EXCEPT ![s] = Req("getMainChat", u, None, "Group.findOne", None)]
    /\ UNCHANGED <<users, groups, members, messages, last>>
    /\ HistoryJoin

\* POST /api/auth/signup up to the lookups of the email and the assigned group
BeginSignup(s, e, ag) ==
    /\ Accepts(s)
    /\ IF Live(users, e) THEN
          /\ last' = Resp("signup", e, ag, 409, None)
          /\ UNCHANGED inflight
       ELSE IF ag # None /\ ~Live(groups, ag) THEN
          /\ last' = Resp("signup", e, ag, 404, None)
          /\ UNCHANGED inflight
       ELSE
          /\ e = FirstFree(UserOrder, users, 1)
          /\ inflight' = [inflight EXCEPT ![s] = Req("signup", e, ag, "User.create", ag)]
          /\ UNCHANGED last
    /\ UNCHANGED <<users, groups, members, messages>>
    /\ HistoryJoin

\* POST /api/admin/users up to the lookup of the email
BeginCreateUser(s, a, e, ag) ==
    /\ Accepts(s)
    /\ IF ~checkAdminPermission(a) \/ (ag # None /\ ~Live(groups, ag)) THEN
          /\ last' = Resp("createUser", a, ag, 403, None)
          /\ UNCHANGED inflight
       ELSE IF Live(users, e) THEN
          /\ last' = Resp("createUser", a, ag, 409, None)
          /\ UNCHANGED inflight
       ELSE
          /\ e = FirstFree(UserOrder, users, 1)
          /\ inflight' = [inflight EXCEPT ![s] = Req("createUser", e, ag, "User.create", ag)]
          /\ UNCHANGED last
    /\ UNCHANGED <<users, groups, members, messages>>
    /\ HistoryJoin

\* POST /api/group-members/:groupId/accept up to the lookup of the invitation
BeginAcceptInvitation(s, u, g) ==
    /\ Accepts(s)
    /\ IF ~Live(groups, g) \/ Invited(groups[g], u, {"pending"}) = {} THEN
          /\ last' = Resp("acceptInvitation", u, g, 404, None)
          /\ UNCHANGED inflight
       ELSE
          /\ inflight' = [inflight EXCEPT ![s] =
                  Req("acceptInvitation", u, g, "GroupMember.create", None)]
          /\ UNCHANGED last
    /\ UNCHANGED <<users, groups, members, messages>>
    /\ HistoryJoin

\* POST /api/groups up to validateGroupName
BeginCreateGroup(s, u, name) ==
    /\ Accepts(s)
    /\ IF ~validateGroupName(groups, name, None) THEN
          /\ last' = Resp("createGroup", u, None, 409, None)
          /\ UNCHANGED inflight
       ELSE
          /\ inflight' = [inflight EXCEPT ![s] = Req("createGroup", u, None, "Group.create", name)]
          /\ UNCHANGED last
    /\ UNCHANGED <<users, groups, members, messages>>
    /\ HistoryJoin

\* await User.create: the unique index on email rejects a second account
AwaitUserCreate(s) ==
    LET r == inflight[s] IN
    /\ r.pc = "User.create"
    /\ IF users[r.user].state # "absent" THEN
          /\ Respond(s, 409, "E11000")
          /\ UNCHANGED users
       ELSE
          /\ users' = [users EXCEPT ![r.user] = NewUser("user", r.arg)]
          /\ Goto(s, IF r.op = "signup"
                      THEN (IF r.arg # None THEN "GroupMember.findOne" ELSE "Group.findOne")
                      ELSE (IF r.arg # None THEN "GroupMember.create" ELSE "respond"))
    /\ UNCHANGED <<groups, members, messages>>
    /\ HistoryJoin

\* await Group.findOne({ name: 'Main Chat' }), with isPublic: true in
\* getMainChatGroup
AwaitGroupFindOne(s) ==
    LET r == inflight[s]
        found == FirstMatch(GroupOrder,
                     LAMBDA g : /\ Live(groups, g) /\ groups[g].name = MAIN_CHAT
                                /\ (r.op = "getMainChat" \/ groups[g].isPublic), 1)
    IN
    /\ r.pc = "Group.findOne"
    /\ inflight' = [inflight EXCEPT ![s] =
            IF found # None THEN [r EXCEPT !.group = found, !.pc = "GroupMember.findOne"]
            ELSE [r EXCEPT !.pc = "Group.create"]]
    /\ UNCHANGED <<users, groups, members, messages, last>>
    /\ HistoryJoin

\* await Group.create
AwaitGroupCreate(s) ==
    LET r == inflight[s]
        fresh == FirstFree(GroupOrder, groups, 1)
    IN
    /\ r.pc = "Group.create"
    /\ fresh # None
    /\ groups' = [groups EXCEPT ![fresh] =
                      IF r.op = "createGroup" THEN NewGroup(r.arg, FALSE)
                      ELSE NewMainChat]
    /\ inflight' = [inflight EXCEPT ![s] =
            [r EXCEPT !.group = fresh,
                      !.pc = IF r.op = "createGroup" THEN "GroupMember.create"
                             ELSE "GroupMember.findOne"]]
    /\ UNCHANGED <<users, members, messages, last>>
    /\ HistoryJoin

\* the await after the membership is in place
AfterMember(r) ==
    CASE r.op = "signup" ->
            IF r.arg = None \/ groups[r.group].name = MAIN_CHAT THEN "Message.create"
            ELSE "respond"
      [] r.op = "createGroup" -> "Message.create"
      [] r.op = "acceptInvitation" -> "group.save"
      [] OTHER -> "respond"

\* await GroupMember.findOne({ user, group })
AwaitGroupMemberFindOne(s) ==
    LET r == inflight[s] IN
    /\ r.pc = "GroupMember.findOne"
    /\ Goto(s, IF FindMember(members, r.user, r.group) # {} THEN AfterMember(r)
                ELSE "GroupMember.create")
    /\ UNCHANGED <<users, groups, members, messages>>
    /\ HistoryJoin

\* await GroupMember.create: a rejected insert lands in the catch block
AwaitGroupMemberCreate(s) ==
    LET r == inflight[s]
        created == GroupMemberCreate(members,
                       MemberRow(r.user, r.group,
                                 IF r.op = "createGroup" THEN "admin" ELSE "member"))
    IN
    /\ r.pc = "GroupMember.create"
    /\ IF created.ok THEN
          /\ members' = created.members
          /\ Goto(s, AfterMember(r))
       ELSE
          /\ UNCHANGED members
          /\ Respond(s, DuplicateKeyStatus(r.op), "E11000")
    /\ UNCHANGED <<users, groups, messages>>
    /\ HistoryJoin

\* await Message.create of the welcome message
AwaitMessageCreate(s) ==
    LET r == inflight[s] IN
    /\ r.pc = "Message.create"
    /\ messages' = Append(messages, NewMessage(now + 1, r.group, r.user, "system", SystemText))
    /\ Goto(s, "respond")
    /\ UNCHANGED <<users, groups, members>>
    /\ HistoryJoin

\* await group.save() of the accepted invitation
AwaitGroupSave(s) ==
    LET r == inflight[s]
        pending == Invited(groups[r.group], r.user, {"pending"})
    IN
    /\ r.pc = "group.save"
    /\ IF ~Live(groups, r.group) THEN
          \* the document is no longer in the store: save() rejects
          /\ UNCHANGED groups
          /\ Respond(s, 500, "DocumentNotFound")
       ELSE
          /\ groups' = IF pending = {} THEN groups
                       ELSE [groups EXCEPT
                                ![r.group].invitedUsers[Min(pending)].status = "accepted"]
          /\ Goto(s, "respond")
    /\ UNCHANGED <<users, members, messages>>
    /\ HistoryJoin

\* the success response
Succeed(s) ==
    LET r == inflight[s] IN
    /\ r.pc = "respond"
    /\ Respond(s, IF r.op \in {"signup", "createUser", "createGroup", "sendMessage"}
                   THEN 201 ELSE 200,
               IF r.op \in {"sendMessage", "getGroupMessages"} THEN r.arg ELSE None)
    /\ UNCHANGED <<users, groups, members, messages>>
    /\ HistoryJoin

\* await group.save() rejected by the store: the catch block answers 500 and
\* the membership created one await earlier stays
FailGroupSave(s) ==
    LET r == inflight[s] IN
    /\ r.pc = "group.save"
    /\ Respond(s, 500, "failed")
    /\ UNCHANGED <<users, groups, members, messages>>
    /\ HistoryJoin

\* the text of a message sent while other requests are in progress; it has
\* passed validateMessageContent and validateMessageType
FlightText == <<"h", "i">>

\* POST /api/messages/:groupId/send up to the first await
BeginSendMessage(s, u, g) ==
    /\ Accepts(s)
    /\ validateMessageContent(FlightText).ok /\ validateMessageType("text")
    /\ inflight' = [inflight EXCEPT ![s] =
            Req("sendMessage", u, g, "validateGroupMembership", None)]
    /\ UNCHANGED <<users, groups, members, messages, last>>
    /\ HistoryJoin

\* await validateGroupMembership(userId, groupId)
AwaitValidateGroupMembership(s) ==
    LET r == inflight[s] IN
    /\ r.pc = "validateGroupMembership"
    /\ IF validateGroupMembership(r.user, r.group) THEN Goto(s, "Group.findById")
       ELSE Respond(s, 403, None)
    /\ UNCHANGED <<users, groups, members, messages>>
    /\ HistoryJoin

\* await Group.findById(groupId) of sendMessage and of getGroupMessages
AwaitGroupFindById(s) ==
    LET r == inflight[s] IN
    /\ r.pc = "Group.findById"
    /\ IF Live(groups, r.group)
       THEN Goto(s, IF r.op = "getGroupMessages" THEN "Promise.all.read"
                    ELSE "Message.create.sent")
       ELSE Respond(s, 404, None)
    /\ UNCHANGED <<users, groups, members, messages>>
    /\ HistoryJoin

\* await Message.create of sendMessage; the request keeps the new message's
\* _id, written as a string. The populating Message.findById that follows
\* changes nothing and its result's readBy is not used in the response.
AwaitSendCreate(s) ==
    LET r == inflight[s]
        t == now + 1
    IN
    /\ r.pc = "Message.create.sent"
    /\ messages' = Append(messages, NewMessage(t, r.group, r.user, "text",
                                               validateMessageContent(FlightText).value))
    /\ inflight' = [inflight EXCEPT ![s] = [r EXCEPT !.pc = "markMessageAsRead",
                                                     !.arg = ToString(t)]]
    /\ UNCHANGED <<users, groups, members, last>>
    /\ HistoryJoin

\* the message a request created, if it is still stored
CreatedBy(r) == {i \in DOMAIN messages : ToString(messages[i].id) = r.arg}

\* await markMessageAsRead(message._id, userId) of sendMessage
AwaitMarkMessageAsRead(s) ==
    LET r == inflight[s] IN
    /\ r.pc = "markMessageAsRead"
    /\ messages' = IF CreatedBy(r) = {} THEN messages
                   ELSE markMessageAsRead(messages,
                            messages[CHOOSE i \in CreatedBy(r) : TRUE].id, r.user, now + 1)
    /\ Goto(s, "respond")
    /\ UNCHANGED <<users, groups, members>>
    /\ HistoryJoin

\* GET /api/messages/:groupId/messages without page and limit, up to the
\* first await: the defaults pass the check of the pagination parameters
BeginGetGroupMessages(s, u, g) ==
    /\ Accepts(s)
    /\ ~(DefaultPage < 1 \/ DefaultLimit < 1 \/ DefaultLimit > MaxLimit)
    /\ inflight' = [inflight EXCEPT ![s] =
            Req("getGroupMessages", u, g, "validateGroupMembership", None)]
    /\ UNCHANGED <<users, groups, members, messages, last>>
    /\ HistoryJoin

RECURSIVE IdText(_, _)
\* the _ids of a page written as a string, one place per instant up to k
IdText(S, k) ==
    IF k < 0 THEN ""
    ELSE IdText(S, k - 1) \o (IF k \in S THEN ToString(k) ELSE "-")

PageText(S) == IdText(S, MaxFlightTime)

\* the first page of a group as the find of getMessagesWithPagination reads it
FirstPage(g) ==
    LET res == getMessagesWithPagination(messages, g, DefaultPage, DefaultLimit)
    IN {res.messages[i].id : i \in DOMAIN res.messages}

\* Message.find(..).sort(..).skip(..).limit(..) of getMessagesWithPagination:
\* one of the two reads Promise.all has started
AwaitMessageFind(s) ==
    LET r == inflight[s] IN
    /\ r.pc \in {"Promise.all.read", "countDocuments.done"}
    /\ inflight' = [inflight EXCEPT ![s] =
            IF r.pc = "Promise.all.read"
            THEN [r EXCEPT !.pc = "find.done", !.arg = PageText(FirstPage(r.group))]
            ELSE [r EXCEPT !.pc = "markReadPromises",
                           !.arg = PageText(FirstPage(r.group)) \o "/" \o r.arg]]
    /\ UNCHANGED <<users, groups, members, messages, last>>
    /\ HistoryJoin

\* Message.countDocuments({ group }) of getMessagesWithPagination: the other
\* read; the request holds "<page>/<totalCount>" once both have answered
AwaitCountDocuments(s) ==
    LET r == inflight[s]
        totalCount == Len(InGroup(messages, r.group))
    IN
    /\ r.pc \in {"Promise.all.read", "find.done"}
    /\ inflight' = [inflight EXCEPT ![s] =
            IF r.pc = "Promise.all.read"
            THEN [r EXCEPT !.pc = "countDocuments.done", !.arg = ToString(totalCount)]
            ELSE [r EXCEPT !.pc = "markReadPromises",
                           !.arg = r.arg \o "/" \o ToString(totalCount)]]
    /\ UNCHANGED <<users, groups, members, messages, last>>
    /\ HistoryJoin

\* the page and the total a request holds after both reads
HeldPage(r) ==
    CHOOSE S \in SUBSET (0..MaxFlightTime) :
        \E n \in 0..(MaxFlightTime + 1) : r.arg = PageText(S) \o "/" \o ToString(n)

RECURSIVE SetToSeq(_)
SetToSeq(S) ==
    IF S = {} THEN <<>>
    ELSE LET x == CHOOSE y \in S : \A z \in S : y <= z
         IN <<x>> \o SetToSeq(S \ {x})

\* await Promise.all(markReadPromises) of getGroupMessages: one
\* findByIdAndUpdate per message of the page (a write to a message deleted
\* meanwhile finds nothing and changes nothing; writes to different messages
\* commute with a deletion, so they are taken together)
AwaitMarkReadPromises(s) ==
    LET r == inflight[s] IN
    /\ r.pc = "markReadPromises"
    /\ messages' = MarkAll(messages, SetToSeq(HeldPage(r)), r.user, now + 1)
    /\ Goto(s, "respond")
    /\ UNCHANGED <<users, groups, members>>
    /\ HistoryJoin

\* POST /api/group-members/:groupId/invite up to group.save(): the handler
\* reads the group document, the caller's admin row, the invited account and
\* its membership, and looks for an invitation in the document it has read
BeginInviteToGroup(s, a, g, t) ==
    /\ Accepts(s)
    /\ IF ~Live(groups, g) THEN
          /\ last' = Resp("inviteToGroup", a, g, 404, None)
          /\ UNCHANGED inflight
       ELSE IF ~FindAdminMembership(a, g) THEN
          /\ last' = Resp("inviteToGroup", a, g, 403, None)
          /\ UNCHANGED inflight
       ELSE IF ~Live(users, t) THEN
          /\ last' = Resp("inviteToGroup", a, g, 404, None)
          /\ UNCHANGED inflight
       ELSE IF FindMember(members, t, g) # {} THEN
          /\ last' = Resp("inviteToGroup", a, g, 409, None)
          /\ UNCHANGED inflight
       ELSE IF Invited(groups[g], t, InviteStatuses) # {} THEN
          /\ last' = Resp("inviteToGroup", a, g, 409, None)
          /\ UNCHANGED inflight
       ELSE
          /\ inflight' = [inflight EXCEPT ![s] =
                  Req("inviteToGroup", a, g, "group.save.push", t)]
          /\ UNCHANGED last
    /\ UNCHANGED <<users, groups, members, messages>>
    /\ HistoryJoin

\* await group.save() of the invitation: the pushed entry is appended to the
\* stored list ($push), whatever was appended to it since the document was read
AwaitInviteSave(s) ==
    LET r == inflight[s] IN
    /\ r.pc = "group.save.push"
    /\ IF ~Live(groups, r.group) THEN
          /\ UNCHANGED groups
          /\ Respond(s, 500, "DocumentNotFound")
       ELSE
          /\ groups' = [groups EXCEPT ![r.group].invitedUsers =
                           Append(@, [user |-> r.arg, status |-> "pending"])]
          /\ Goto(s, "respond")
    /\ UNCHANGED <<users, members, messages>>
    /\ HistoryJoin

DeleteOps == {"deleteGroup", "deleteGroupPublic"}

\* the three store operations handed to Promise.all
Deletions == {"Message.deleteMany", "GroupMember.deleteMany", "Group.findByIdAndDelete"}

\* the operations of a deletion that have not settled yet, kept in the
\* request as a key: m, b and g stand for the three operations in turn
PendingKeys == {"mbg", "mb", "mg", "bg", "m", "b", "g", None}
PendingOf(key) ==
    {d \in Deletions :
        \/ d = "Message.deleteMany" /\ key \in {"mbg", "mb", "mg", "m"}
        \/ d = "GroupMember.deleteMany" /\ key \in {"mbg", "mb", "bg", "b"}
        \/ d = "Group.findByIdAndDelete" /\ key \in {"mbg", "mg", "bg", "g"}}
KeyOf(S) == CHOOSE key \in PendingKeys : PendingOf(key) = S

\* DELETE /api/groups/:groupId up to Promise.all
BeginDeleteGroup(s, u, g) ==
    /\ Accepts(s)
    /\ IF ~Live(groups, g) THEN
          /\ last' = Resp("deleteGroup", u, g, 404, None)
          /\ UNCHANGED inflight
       ELSE IF ~FindAdminMembership(u, g) THEN
          /\ last' = Resp("deleteGroup", u, g, 403, None)
          /\ UNCHANGED inflight
       ELSE IF groups[g].name = MAIN_CHAT THEN
          /\ last' = Resp("deleteGroup", u, g, 400, None)
          /\ UNCHANGED inflight
       ELSE
          /\ inflight' = [inflight EXCEPT ![s] =
                  Req("deleteGroup", u, g, "Promise.all", KeyOf(Deletions))]
          /\ UNCHANGED last
    /\ UNCHANGED <<users, groups, members, messages>>
    /\ HistoryJoin

\* DELETE /api/groups/:groupId/delete-public up to Promise.all
BeginDeleteGroupPublic(s, g) ==
    /\ Accepts(s)
    /\ IF ~Live(groups, g) THEN
          /\ last' = Resp("deleteGroupPublic", None, g, 404, None)
          /\ UNCHANGED inflight
       ELSE IF groups[g].name = MAIN_CHAT THEN
          /\ last' = Resp("deleteGroupPublic", None, g, 400, None)
          /\ UNCHANGED inflight
       ELSE
          /\ inflight' = [inflight EXCEPT ![s] =
                  Req("deleteGroupPublic", None, g, "Promise.all", KeyOf(Deletions))]
          /\ UNCHANGED last
    /\ UNCHANGED <<users, groups, members, messages>>
    /\ HistoryJoin

\* one of the three operations of Promise.all settles, in any order: the
\* store carries it out (ok) or rejects it. The first rejection rejects
\* Promise.all and the catch block answers 500 while the operations still
\* pending run on (pc "detached"); when all three succeeded the handler
\* goes on to its 200 response.
AwaitDeletion(s, d, ok) ==
    LET r == inflight[s]
        g == r.group
        rest == PendingOf(r.arg) \ {d}
    IN
    /\ r.pc \in {"Promise.all", "detached"}
    /\ d \in PendingOf(r.arg)
    /\ messages' = IF ok /\ d = "Message.deleteMany"
                   THEN DeleteMessages(messages, LAMBDA m : m.group = g) ELSE messages
    /\ members' = IF ok /\ d = "GroupMember.deleteMany"
                  THEN DeleteMembers(members, LAMBDA row : row.group = g) ELSE members
    /\ groups' = IF ok /\ d = "Group.findByIdAndDelete" /\ Live(groups, g)
                 THEN [groups EXCEPT ![g] = GoneGroup] ELSE groups
    /\ IF r.pc = "Promise.all" /\ ~ok THEN
          /\ last' = Resp(r.op, r.user, g, 500, "failed")
          /\ inflight' = [inflight EXCEPT ![s] =
                  IF rest = {} THEN Idle
                  ELSE [r EXCEPT !.pc = "detached", !.arg = KeyOf(rest)]]
       ELSE
          /\ inflight' = [inflight EXCEPT ![s] =
                  IF rest # {} THEN [r EXCEPT !.arg = KeyOf(rest)]
                  ELSE IF r.pc = "detached" THEN Idle
                  ELSE [r EXCEPT !.pc = "respond", !.arg = None]]
          /\ UNCHANGED last
    /\ UNCHANGED users
    /\ HistoryJoin


(* --------------------------- specifications --------------------------- *)

GroupArgs == GroupIds \cup {None}
NameArgs == Names \cup {None}
\* update bodies carrying at most one of the two fields
UpdateBodies == {b \in [name : NameArgs, isPublic : PublicInputs] :
                    b.name = None \/ b.isPublic = "undefined"}

\* the account requests, from the freshly initialised store
NextAuth ==
    \/ \E e \in UserIds, pwOk \in BOOLEAN, role \in SignupRoles, ag \in GroupArgs :
          signup(e, pwOk, role, ag)
    \/ \E u \in UserIds, pwOk \in BOOLEAN : login(u, pwOk)
    \/ \E a \in LiveUsers, e \in UserIds, role \in SignupRoles, ag \in GroupArgs :
          createUser(a, e, role, ag)
    \/ \E a \in LiveUsers, t \in UserIds, ag \in GroupArgs : updateUser(a, t, ag)
    \/ \E a \in LiveUsers, t \in UserIds : deleteUser(a, t)
    \/ \E name \in Names, p \in {"undefined", "false"} : createGroupPublic(name, p)

SpecAuth == Init /\ [][NextAuth]_vars

\* the seeded administrator and two accounts created by POST /api/admin/users
InitAccounts ==
    /\ users = [u \in UserIds |->
                  IF u = UserOrder[1] THEN NewUser("super_admin", None)
                  ELSE NewUser("user", None)]
    /\ groups = [g \in GroupIds |-> NoGroup]
    /\ members = EmptyBag
    /\ messages = <<>>
    /\ now = 0
    /\ inflight = {}
    /\ hadAdmin = {}
    /\ mainIds = {}
    /\ last = Resp("init", None, None, 0, None)

\* the group and membership requests, one at a time
Next ==
    \/ \E a \in LiveUsers, t \in UserIds : deleteUser(a, t)
    \/ \E name \in Names : createGroupPublic(name, "undefined")
    \/ \E g \in GroupIds, b \in UpdateBodies : updateGroupPublic(g, b.name, b.isPublic)
    \/ \E g \in GroupIds : deleteGroupPublic(g)
    \/ \E u \in LiveUsers, name \in Names : createGroup(u, name, "undefined")
    \/ \E u \in LiveUsers : getMainChat(u)
    \/ \E u \in LiveUsers, g \in GroupIds, b \in UpdateBodies :
          updateGroup(u, g, b.name, b.isPublic)
    \/ \E u \in LiveUsers, g \in GroupIds : deleteGroup(u, g)
    \/ \E a \in LiveUsers, g \in GroupIds, t \in UserIds : inviteToGroup(a, g, t)
    \/ \E u \in LiveUsers, g \in GroupIds : acceptInvitation(u, g)
    \/ \E a \in LiveUsers, g \in GroupIds, t \in UserIds : removeMember(a, g, t)

Spec == InitAccounts /\ [][Next]_vars

\* the behaviour's writes stay within k instants
Within(k) == store' # store => now < k

\* the message requests
NextMsg ==
    \/ \E u \in LiveUsers, g \in GroupIds, c \in Contents, ty \in TypeInputs :
          sendMessage(u, g, c, ty) /\ Within(MaxMsgTime)
    \/ \E u \in LiveUsers, g \in GroupIds, p \in {1, 2}, l \in {0, 2, MaxLimit + 1} :
          getGroupMessages(u, g, p, l) /\ Within(MaxMsgTime)
    \/ \E u \in LiveUsers, g \in GroupIds : getUnreadMessageCount(u, g)
    \/ \E u \in LiveUsers, g \in GroupIds, ids \in IdLists :
          markMessagesAsRead(u, g, ids) /\ Within(MaxMsgTime)
    \/ \E u \in LiveUsers, id \in 0..MaxMsgTime : deleteMessage(u, id) /\ Within(MaxMsgTime)

\* a store the group and membership requests produce: Main Chat (g1) joined
\* by u2 and u3 through getMainChat, General (g2) created by u2 with its
\* welcome message, u3 and u1 invited to it and accepted, u1 then removed by
\* u2 (the seeded administrator u1 never joined Main Chat).
\* Instants are counted from the start of the observed run, so the welcome
\* message carries instant 0.
InitMsg ==
    /\ users = [u \in UserIds |->
                  IF u = UserOrder[1] THEN NewUser("super_admin", None)
                  ELSE NewUser("user", None)]
    /\ groups = [g \in GroupIds |->
                  IF g = GroupOrder[1] THEN NewMainChat
                  ELSE [NewGroup("General", FALSE) EXCEPT
                           !.invitedUsers = <<[user |-> UserOrder[3], status |-> "accepted"],
                                              [user |-> UserOrder[1], status |-> "accepted"]>>]]
    /\ members = SetToBag({MemberRow(UserOrder[2], GroupOrder[1], "member"),
                           MemberRow(UserOrder[3], GroupOrder[1], "member"),
                           MemberRow(UserOrder[2], GroupOrder[2], "admin"),
                           MemberRow(UserOrder[3], GroupOrder[2], "member"),
                           [MemberRow(UserOrder[1], GroupOrder[2], "member")
                               EXCEPT !.isActive = FALSE]})
    /\ messages = <<NewMessage(0, GroupOrder[2], UserOrder[2], "system", SystemText)>>
    /\ now = 0
    /\ inflight = {}
    /\ hadAdmin = {GroupOrder[2]}
    /\ mainIds = {GroupOrder[1]}
    /\ last = Resp("init", None, None, 0, None)

SpecMsg == InitMsg /\ [][NextMsg]_vars

\* the messages u2 sent before the observed run, at instants 1 - n .. 0, each
\* self-marked read by its sender as sendMessage leaves it
Logs ==
    UNION {[1..n -> GroupIds \X {UserOrder[2]}] : n \in 0..MaxLog}

StoredLog(log) ==
    [k \in DOMAIN log |->
        markMessageAsRead(
            <<NewMessage(k - Len(log), log[k][1], log[k][2], "text", <<"h", "i">>)>>,
            k - Len(log), log[k][2], k - Len(log))[1]]

\* Main Chat (g1) and General (g2), both joined by u2 and u3, with a history
\* of sent messages
InitPage ==
    /\ users = [u \in UserIds |->
                  IF u = UserOrder[1] THEN NewUser("super_admin", None)
                  ELSE NewUser("user", None)]
    /\ groups = [g \in GroupIds |->
                  IF g = GroupOrder[1] THEN NewMainChat
                  ELSE NewGroup("General", TRUE)]
    /\ members = SetToBag({MemberRow(u, g, "member") :
                              u \in {UserOrder[2], UserOrder[3]}, g \in GroupIds})
    /\ \E log \in Logs : messages = StoredLog(log)
    /\ now = 0
    /\ inflight = {}
    /\ hadAdmin = {}
    /\ mainIds = {GroupOrder[1]}
    /\ last = Resp("init", None, None, 0, None)

\* the page requests of u3
NextPage ==
    \E u \in {UserOrder[3]}, g \in GroupIds, p \in PageInputs, l \in LimitInputs :
        getGroupMessages(u, g, p, l) /\ Within(MaxPageTime)

SpecPage == InitPage /\ [][NextPage]_vars

\* General (g1) created by u2, who invited u1; u3 has no account yet and Main
\* Chat has not been created
InitJoin ==
    /\ users = [u \in UserIds |->
                  IF u = UserOrder[1] THEN NewUser("super_admin", None)
                  ELSE IF u = UserOrder[2] THEN NewUser("user", None)
                  ELSE NoUser]
    /\ groups = [g \in GroupIds |->
                  IF g = GroupOrder[1]
                  THEN [NewGroup("General", FALSE) EXCEPT
                           !.invitedUsers = <<[user |-> UserOrder[1], status |-> "pending"]>>]
                  ELSE NoGroup]
    /\ members = SetToBag({MemberRow(UserOrder[2], GroupOrder[1], "admin")})
    /\ messages = <<NewMessage(0, GroupOrder[1], UserOrder[2], "system", SystemText)>>
    /\ now = 0
    /\ inflight = [s \in Slots |-> Idle]
    /\ hadAdmin = {GroupOrder[1]}
    /\ mainIds = {}
    /\ last = Resp("init", None, None, 0, None)

\* the joining requests, interleaved at their awaits; logins carry the right
\* password and new accounts an email no account holds yet
NextJoin ==
    \E s \in Slots :
        \/ \E u \in LiveUsers : BeginLogin(s, u, TRUE) /\ Within(MaxJoinTime)
        \/ \E u \in LiveUsers : BeginGetMainChat(s, u) /\ Within(MaxJoinTime)
        \/ \E e \in UserIds \ LiveUsers, ag \in GroupArgs :
              BeginSignup(s, e, ag) /\ Within(MaxJoinTime)
        \/ \E a \in LiveUsers, e \in UserIds \ LiveUsers, ag \in GroupArgs :
              BeginCreateUser(s, a, e, ag) /\ Within(MaxJoinTime)
        \/ \E u \in LiveUsers, g \in GroupIds :
              BeginAcceptInvitation(s, u, g) /\ Within(MaxJoinTime)
        \/ \E u \in LiveUsers, name \in Names :
              BeginCreateGroup(s, u, name) /\ Within(MaxJoinTime)
        \/ AwaitUserCreate(s) /\ Within(MaxJoinTime)
        \/ AwaitGroupFindOne(s) /\ Within(MaxJoinTime)
        \/ AwaitGroupCreate(s) /\ Within(MaxJoinTime)
        \/ AwaitGroupMemberFindOne(s) /\ Within(MaxJoinTime)
        \/ AwaitGroupMemberCreate(s) /\ Within(MaxJoinTime)
        \/ AwaitMessageCreate(s) /\ Within(MaxJoinTime)
        \/ AwaitGroupSave(s) /\ Within(MaxJoinTime)
        \/ Succeed(s) /\ Within(MaxJoinTime)

SpecJoin == InitJoin /\ [][NextJoin]_vars

\* a private group with its admin, an invitation not yet answered and an
\* account assigned to the group that has not logged in yet
InitCascade ==
    /\ users = [u \in UserIds |->
                  IF u = UserOrder[1] THEN NewUser("super_admin", None)
                  ELSE IF u = UserOrder[2] THEN NewUser("user", None)
                  ELSE NewUser("user", GroupOrder[2])]
    /\ groups = [g \in GroupIds |->
                  IF g = GroupOrder[1] THEN NewMainChat
                  ELSE [NewGroup("General", FALSE) EXCEPT
                           !.invitedUsers = <<[user |-> UserOrder[1], status |-> "pending"]>>]]
    /\ members = SetToBag({MemberRow(UserOrder[2], GroupOrder[2], "admin")})
    /\ messages = <<NewMessage(0, GroupOrder[2], UserOrder[2], "system", SystemText)>>
    /\ now = 0
    /\ inflight = [s \in Slots |-> Idle]
    /\ hadAdmin = {GroupOrder[2]}
    /\ mainIds = {GroupOrder[1]}
    /\ last = Resp("init", None, None, 0, None)

\* a deletion of the private group interleaved at its awaits with a send by
\* its admin, the acceptance of its invitation and the login of the account
\* assigned to it; the store carries out every operation
NextCascade ==
    \E s \in Slots :
        \/ \E u \in {UserOrder[1], UserOrder[2]} : BeginDeleteGroup(s, u, GroupOrder[2])
        \/ \E g \in GroupIds : BeginDeleteGroupPublic(s, g)
        \/ \E d \in Deletions : AwaitDeletion(s, d, TRUE)
        \/ BeginSendMessage(s, UserOrder[2], GroupOrder[2])
        \/ AwaitValidateGroupMembership(s)
        \/ AwaitGroupFindById(s)
        \/ AwaitSendCreate(s)
        \/ AwaitMarkMessageAsRead(s)
        \/ BeginAcceptInvitation(s, UserOrder[1], GroupOrder[2])
        \/ AwaitGroupMemberCreate(s)
        \/ AwaitGroupSave(s)
        \/ BeginLogin(s, UserOrder[3], TRUE)
        \/ AwaitGroupFindOne(s)
        \/ AwaitGroupMemberFindOne(s)
        \/ Succeed(s)

SpecCascade == InitCascade /\ [][NextCascade]_vars

\* the requests that make several writes, with a store that may reject any
\* one of the writes
NextFailure ==
    \E s \in Slots :
        \/ \E u \in {UserOrder[1], UserOrder[2]} : BeginDeleteGroup(s, u, GroupOrder[2])
        \/ \E g \in GroupIds : BeginDeleteGroupPublic(s, g)
        \/ \E d \in Deletions, ok \in BOOLEAN : AwaitDeletion(s, d, ok)
        \/ BeginAcceptInvitation(s, UserOrder[1], GroupOrder[2])
        \/ AwaitGroupMemberCreate(s)
        \/ AwaitGroupSave(s)
        \/ FailGroupSave(s)
        \/ Succeed(s)

SpecFailure == InitCascade /\ [][NextFailure]_vars


MaxSendTime == 2      \* instants of a behaviour of the send and edit requests

\* request bodies' content: padded text, blank, the longest text allowed
\* with a leading space, and one character too many
BodyContents == {<<" ", "h", "i", " ">>, <<" ", " ">>,
                 <<" ">> \o Repeat("x", MaxContentLength),
                 Repeat("x", MaxContentLength + 1)}
\* request bodies' messageType
BodyTypes == {"undefined", "video"}

\* a private group with its admin, a member and a removed member, and the
\* membership row a deletion of the second group left behind when an
\* acceptance of its invitation was in progress
InitSend ==
    /\ users = [u \in UserIds |->
                  IF u = UserOrder[1] THEN NewUser("super_admin", None)
                  ELSE NewUser("user", None)]
    /\ groups = [g \in GroupIds |->
                  IF g = GroupOrder[1]
                  THEN [NewGroup("General", FALSE) EXCEPT
                           !.invitedUsers = <<[user |-> UserOrder[3], status |-> "accepted"],
                                              [user |-> UserOrder[1], status |-> "accepted"]>>]
                  ELSE GoneGroup]
    /\ members = SetToBag({MemberRow(UserOrder[2], GroupOrder[1], "admin"),
                           MemberRow(UserOrder[3], GroupOrder[1], "member"),
                           [MemberRow(UserOrder[1], GroupOrder[1], "member")
                               EXCEPT !.isActive = FALSE],
                           MemberRow(UserOrder[1], GroupOrder[2], "member")})
    /\ messages = <<NewMessage(0, GroupOrder[1], UserOrder[2], "system", SystemText)>>
    /\ now = 0
    /\ inflight = {}
    /\ hadAdmin = {GroupOrder[1]}
    /\ mainIds = {}
    /\ last = Resp("init", None, None, 0, None)

\* the send and edit routes, one request after the other
NextSend ==
    \/ \E u \in UserIds, g \in GroupIds, c \in BodyContents, ty \in BodyTypes :
          PostSend(u, g, c, ty) /\ Within(MaxSendTime)
    \/ \E u \in UserIds, id \in 0..MaxSendTime, c \in BodyContents :
          PutMessage(u, id, c) /\ Within(MaxSendTime)

SpecSend == InitSend /\ [][NextSend]_vars

MaxReceiptTime == 3   \* instants of a behaviour of the sends and reads

\* the groups and memberships of InitMsg, with no request in progress
InitReceipt ==
    /\ users = [u \in UserIds |->
                  IF u = UserOrder[1] THEN NewUser("super_admin", None)
                  ELSE NewUser("user", None)]
    /\ groups = [g \in GroupIds |->
                  IF g = GroupOrder[1] THEN NewMainChat
                  ELSE [NewGroup("General", FALSE) EXCEPT
                           !.invitedUsers = <<[user |-> UserOrder[3], status |-> "accepted"],
                                              [user |-> UserOrder[1], status |-> "accepted"]>>]]
    /\ members = SetToBag({MemberRow(UserOrder[2], GroupOrder[1], "member"),
                           MemberRow(UserOrder[3], GroupOrder[1], "member"),
                           MemberRow(UserOrder[2], GroupOrder[2], "admin"),
                           MemberRow(UserOrder[3], GroupOrder[2], "member"),
                           [MemberRow(UserOrder[1], GroupOrder[2], "member")
                               EXCEPT !.isActive = FALSE]})
    /\ messages = <<NewMessage(0, GroupOrder[2], UserOrder[2], "system", SystemText)>>
    /\ now = 0
    /\ inflight = [s \in Slots |-> Idle]
    /\ hadAdmin = {GroupOrder[2]}
    /\ mainIds = {GroupOrder[1]}
    /\ last = Resp("init", None, None, 0, None)

\* sends to the private group, one await at a time, while its members open
\* the group's first page and its admin deletes messages
NextReceipt ==
    \/ \E s \in Slots, u \in UserIds :
          BeginSendMessage(s, u, GroupOrder[2]) /\ Within(MaxReceiptTime)
    \/ \E s \in Slots : AwaitValidateGroupMembership(s) /\ Within(MaxReceiptTime)
    \/ \E s \in Slots : AwaitGroupFindById(s) /\ Within(MaxReceiptTime)
    \/ \E s \in Slots : AwaitSendCreate(s) /\ Within(MaxReceiptTime)
    \/ \E s \in Slots : AwaitMarkMessageAsRead(s) /\ Within(MaxReceiptTime)
    \/ \E s \in Slots : Succeed(s) /\ Within(MaxReceiptTime)
    \/ \E u \in {UserOrder[2], UserOrder[3]} :
          getGroupMessages(u, GroupOrder[2], DefaultPage, DefaultLimit)
             /\ Within(MaxReceiptTime)
    \/ \E id \in 0..MaxReceiptTime :
          deleteMessage(UserOrder[2], id) /\ Within(MaxReceiptTime)

SpecReceipt == InitReceipt /\ [][NextReceipt]_vars

MaxInviteTime == 3    \* instants of a behaviour of the invitations

\* a private group with its admin and its welcome message, nobody invited
InitInvite ==
    /\ users = [u \in UserIds |->
                  IF u = UserOrder[1] THEN NewUser("super_admin", None)
                  ELSE NewUser("user", None)]
    /\ groups = [g \in GroupIds |->
                  IF g = GroupOrder[1] THEN NewGroup("General", FALSE) ELSE NoGroup]
    /\ members = SetToBag({MemberRow(UserOrder[2], GroupOrder[1], "admin")})
    /\ messages = <<NewMessage(0, GroupOrder[1], UserOrder[2], "system", SystemText)>>
    /\ now = 0
    /\ inflight = [s \in Slots |-> Idle]
    /\ hadAdmin = {GroupOrder[1]}
    /\ mainIds = {}
    /\ last = Resp("init", None, None, 0, None)

\* invitations and their acceptance, one await at a time
NextInvite ==
    \E s \in Slots :
        \/ \E a \in UserIds, g \in GroupIds, t \in UserIds :
              BeginInviteToGroup(s, a, g, t) /\ Within(MaxInviteTime)
        \/ AwaitInviteSave(s) /\ Within(MaxInviteTime)
        \/ \E u \in UserIds : BeginAcceptInvitation(s, u, GroupOrder[1])
                                 /\ Within(MaxInviteTime)
        \/ AwaitGroupMemberCreate(s) /\ Within(MaxInviteTime)
        \/ AwaitGroupSave(s) /\ Within(MaxInviteTime)
        \/ Succeed(s) /\ Within(MaxInviteTime)

SpecInvite == InitInvite /\ [][NextInvite]_vars

MaxJoined == 4        \* the latest joinedAt of a stored membership row

\* the memberships createGroup, inviteToGroup, acceptInvitation and
\* removeMember leave: u2 created g1 at instant 0 and u3 created g2 at
\* instant 3; the others joined later through an invitation, at different
\* instants, and some were removed since
JoinedRows ==
    LET Joins(u, g, times) ==
            {{}} \cup {{JoinedRow(u, g, "member", a, t)} : a \in BOOLEAN, t \in times}
    IN {{JoinedRow(UserOrder[2], GroupOrder[1], "admin", TRUE, 0),
         JoinedRow(UserOrder[3], GroupOrder[2], "admin", TRUE, 3)}
           \cup r1 \cup r3 \cup r2 :
           r1 \in Joins(UserOrder[1], GroupOrder[1], {1, 2}),
           r3 \in Joins(UserOrder[3], GroupOrder[1], {1, 2}),
           r2 \in Joins(UserOrder[2], GroupOrder[2], {MaxJoined})}

InitMembers ==
    /\ users = [u \in UserIds |->
                  IF u = UserOrder[1] THEN NewUser("super_admin", None)
                  ELSE NewUser("user", None)]
    /\ groups = [g \in GroupIds |-> NewGroup(IF g = GroupOrder[1] THEN "General" ELSE "Team",
                                             FALSE)]
    /\ \E S \in JoinedRows :
          /\ \A r, o \in S : (r.group = o.group /\ r.joinedAt = o.joinedAt) => r = o
          /\ members = SetToBag(S)
    /\ messages = <<>>
    /\ now = 0
    /\ inflight = {}
    /\ hadAdmin = GroupIds
    /\ mainIds = {}
    /\ last = Resp("init", None, None, 0, None)

NextMembers == \E u \in UserIds, g \in GroupIds : getGroupMembers(u, g)

SpecMembers == InitMembers /\ [][NextMembers]_vars

MaxSnapshotTime == 2  \* instants of a behaviour of the concurrent listings

\* listings of the private group, one await at a time, while its members
\* send to it and its admin deletes messages
NextSnapshot ==
    \/ \E s \in Slots, u \in {UserOrder[2], UserOrder[3]} :
          BeginGetGroupMessages(s, u, GroupOrder[2]) /\ Within(MaxSnapshotTime)
    \/ \E s \in Slots : AwaitValidateGroupMembership(s) /\ Within(MaxSnapshotTime)
    \/ \E s \in Slots : AwaitGroupFindById(s) /\ Within(MaxSnapshotTime)
    \/ \E s \in Slots : AwaitMessageFind(s) /\ Within(MaxSnapshotTime)
    \/ \E s \in Slots : AwaitCountDocuments(s) /\ Within(MaxSnapshotTime)
    \/ \E s \in Slots : AwaitMarkReadPromises(s) /\ Within(MaxSnapshotTime)
    \/ \E s \in Slots : Succeed(s) /\ Within(MaxSnapshotTime)
    \/ sendMessage(UserOrder[3], GroupOrder[2], FlightText, "text")
          /\ Within(MaxSnapshotTime)
    \/ \E id \in 0..MaxSnapshotTime :
          deleteMessage(UserOrder[2], id) /\ Within(MaxSnapshotTime)

SpecSnapshot == InitReceipt /\ [][NextSnapshot]_vars

\* Main Chat (g1) joined by u2 and u3 through getMainChat, and General (g2)
\* created by u3 with its welcome message: u2 is no member of General
InitScope ==
    /\ users = [u \in UserIds |->
                  IF u = UserOrder[1] THEN NewUser("super_admin", None)
                  ELSE NewUser("user", None)]
    /\ groups = [g \in GroupIds |->
                  IF g = GroupOrder[1] THEN NewMainChat
                  ELSE NewGroup("General", FALSE)]
    /\ members = SetToBag({MemberRow(UserOrder[2], GroupOrder[1], "member"),
                           MemberRow(UserOrder[3], GroupOrder[1], "member"),
                           MemberRow(UserOrder[3], GroupOrder[2], "admin")})
    /\ messages = <<NewMessage(0, GroupOrder[2], UserOrder[3], "system", SystemText)>>
    /\ now = 0
    /\ inflight = {}
    /\ hadAdmin = {GroupOrder[2]}
    /\ mainIds = {GroupOrder[1]}
    /\ last = Resp("init", None, None, 0, None)

\* the message requests over groups with different members
SpecScope == InitScope /\ [][NextMsg]_vars

\* the requests that create, deactivate and delete membership rows, one at
\* a time
NextLifecycle ==
    \/ \E u \in LiveUsers : login(u, TRUE)
    \/ \E u \in LiveUsers : getMainChat(u)
    \/ \E u \in LiveUsers, name \in Names : createGroup(u, name, "undefined")
    \/ \E a \in LiveUsers, g \in GroupIds, t \in UserIds : inviteToGroup(a, g, t)
    \/ \E u \in LiveUsers, g \in GroupIds : acceptInvitation(u, g)
    \/ \E a \in LiveUsers, g \in GroupIds, t \in UserIds : removeMember(a, g, t)
    \/ \E u \in LiveUsers, g \in GroupIds : deleteGroup(u, g)

\* a public Main Chat (g1) created by u2 with POST /api/groups, holding its
\* welcome message; instants are counted from the start of the observed run
InitLifecycle ==
    /\ users = [u \in UserIds |->
                  IF u = UserOrder[1] THEN NewUser("super_admin", None)
                  ELSE NewUser("user", None)]
    /\ groups = [g \in GroupIds |->
                  IF g = GroupOrder[1] THEN NewGroup(MAIN_CHAT, TRUE) ELSE NoGroup]
    /\ members = SetToBag({MemberRow(UserOrder[2], GroupOrder[1], "admin")})
    /\ messages = <<NewMessage(0, GroupOrder[1], UserOrder[2], "system", SystemText)>>
    /\ now = 0
    /\ inflight = {}
    /\ hadAdmin = {GroupOrder[1]}
    /\ mainIds = {GroupOrder[1]}
    /\ last = Resp("init", None, None, 0, None)

SpecLifecycle == InitLifecycle /\ [][NextLifecycle]_vars

SmallCapacity == 2    \* the maxMembers of the group the joins fill

\* General (g1) created by u2 with maxMembers: 2, who invited u3 and u1
InitCapacity ==
    /\ users = [u \in UserIds |->
                  IF u = UserOrder[1] THEN NewUser("super_admin", None)
                  ELSE NewUser("user", None)]
    /\ groups = [g \in GroupIds |->
                  IF g = GroupOrder[1]
                  THEN [NewGroup("General", FALSE) EXCEPT
                           !.maxMembers = clampMaxMembers(SmallCapacity),
                           !.invitedUsers = <<[user |-> UserOrder[3], status |-> "pending"],
                                              [user |-> UserOrder[1], status |-> "pending"]>>]
                  ELSE NoGroup]
    /\ members = SetToBag({MemberRow(UserOrder[2], GroupOrder[1], "admin")})
    /\ messages = <<NewMessage(0, GroupOrder[1], UserOrder[2], "system", SystemText)>>
    /\ now = 0
    /\ inflight = {}
    /\ hadAdmin = {GroupOrder[1]}
    /\ mainIds = {}
    /\ last = Resp("init", None, None, 0, None)

\* the joins into a group of small capacity
SpecCapacity == InitCapacity /\ [][NextLifecycle]_vars

(* ------------------------------- claims ------------------------------- *)

\* C1: every group that has had an active admin membership and still exists
\* has at least one active membership with role admin.
C1_AdminFloor ==
    \A g \in hadAdmin : Live(groups, g) => adminCount(members, g) >= 1

\* C10: once a group has been created under the name "Main Chat", some group
\* named "Main Chat" exists and the group created as Main Chat is not deleted.
C10_MainChatKept ==
    mainIds # {} =>
        /\ \E g \in GroupIds : Live(groups, g) /\ groups[g].name = MAIN_CHAT
        /\ \A g \in mainIds : groups[g].state # "gone"

MessageOps == {"sendMessage", "getGroupMessages", "getUnreadMessageCount",
               "markMessagesAsRead"}

\* C2: a message request with otherwise valid arguments from a caller without
\* an active membership row in the group is answered 403 and leaves every
\* message and read-receipt as it was.
C2_NonMemberForbidden ==
    [][(last'.op \in MessageOps /\ last' # last /\ last'.info.valid /\ ~last'.info.active)
          => (last'.status = 403 /\ messages' = messages)]_vars

\* C2 happens: a caller holding only an inactive row was answered 403
C2_Witness ==
    /\ last.op \in MessageOps
    /\ last.status = 403
    /\ last.info.valid
    /\ \E r \in Rows : r.user = last.user /\ r.group = last.group /\ ~r.isActive

\* C4: every message's readBy list holds at most one entry per user.
C4_OneReceiptPerUser ==
    \A k \in DOMAIN messages :
        \A i, j \in DOMAIN messages[k].readBy :
            messages[k].readBy[i].user = messages[k].readBy[j].user => i = j

\* the messages of group g that user u neither sent nor holds a receipt on
UnreadOf(g, u) ==
    {k \in DOMAIN messages :
        messages[k].group = g /\ messages[k].sender # u /\ ~HasReceipt(messages[k], u)}

\* C5: getUnreadMessageCount by an active member answers the number of stored
\* messages of the group the caller did not send and holds no receipt on.
C5_UnreadCount ==
    (last.op = "getUnreadMessageCount" /\ last.info.active) =>
        /\ last.status = 200
        /\ last.info.unreadCount = Cardinality(UnreadOf(last.group, last.user))

\* C5 happens: a count of at least one was answered while the group also
\* stores a message the caller wrote and holds no receipt on
C5_Witness ==
    /\ last.op = "getUnreadMessageCount"
    /\ last.status = 200
    /\ last.info.unreadCount >= 1
    /\ \E k \in DOMAIN messages :
          /\ messages[k].group = last.group
          /\ messages[k].sender = last.user
          /\ ~HasReceipt(messages[k], last.user)

\* C6 as stated: after markMessagesAsRead the caller's unread count is the
\* count before minus the number of distinct messages that gained a receipt.
C6_DropsByNewlyMarked ==
    (last.op = "markMessagesAsRead" /\ last.status = 200) =>
        countUnread(messages, last.group, last.user)
            = last.info.unreadBefore - last.info.newly

\* C6 amended: after markMessagesAsRead the caller's unread count is the count
\* before minus the number of distinct messages of the group, not sent by the
\* caller, that gained a receipt.
C6_DropsByCleared ==
    (last.op = "markMessagesAsRead" /\ last.status = 200) =>
        countUnread(messages, last.group, last.user)
            = last.info.unreadBefore - last.info.cleared

\* C6 happens: a call listing two ids cleared at least one unread message
C6_Witness ==
    /\ last.op = "markMessagesAsRead"
    /\ last.status = 200
    /\ last.info.markedCount = MaxIds
    /\ last.info.cleared >= 1
    /\ last.info.unreadBefore > last.info.cleared
    /\ countUnread(messages, last.group, last.user) >= 1

\* the creation instants of the messages stored for group g
StoredIds(g) == {messages[k].id : k \in {j \in DOMAIN messages : messages[j].group = g}}

\* rank of a stored message of group g counting from the newest (1 = newest)
Rank(g, id) == 1 + Cardinality({x \in StoredIds(g) : x > id})

\* s lists creation instants in strictly ascending order
Ascending(s) == \A i, j \in DOMAIN s : i < j => s[i] < s[j]

Range(s) == {s[i] : i \in DOMAIN s}

PageAnswered == last.op = "getGroupMessages" /\ last.status = 200

\* C7: a successful getGroupMessages(page p, limit L) answers exactly the
\* messages of the group ranked (p-1)L+1 .. pL from the newest, in ascending
\* creation order; page 1 holds the min(L, total) most recent messages.
C7_PageIsRankWindow ==
    PageAnswered =>
        LET p == last.info.page
            L == last.info.limit
            P == last.info.messages
            total == Cardinality(StoredIds(last.group))
        IN /\ Range(P) = {x \in StoredIds(last.group) :
                              Rank(last.group, x) \in ((p - 1) * L + 1)..(p * L)}
           /\ Ascending(P)
           /\ p = 1 => Len(P) = IF L < total THEN L ELSE total

\* C7 happens: a second or later page with at least two messages was answered
C7_Witness ==
    /\ PageAnswered
    /\ last.info.page >= 2
    /\ Len(last.info.messages) >= 2

\* the ids answered for pages 1 .. n of group g with limit L, in page order
RECURSIVE ConcatPages(_, _, _)
ConcatPages(g, L, n) ==
    IF n = 0 THEN <<>>
    ELSE ConcatPages(g, L, n - 1) \o Ids(getMessagesWithPagination(messages, g, n, L).messages)

\* the ids answered for pages n, n + 1, .. totalPages, last page first
RECURSIVE ConcatPagesBack(_, _, _)
ConcatPagesBack(g, L, n) ==
    IF n > getMessagesWithPagination(messages, g, 1, L).pagination.totalPages THEN <<>>
    ELSE ConcatPagesBack(g, L, n + 1) \o Ids(getMessagesWithPagination(messages, g, n, L).messages)

TotalPages(g, L) == getMessagesWithPagination(messages, g, 1, L).pagination.totalPages

\* s is the group's full history: every stored message once, oldest first
FullHistory(s, g) ==
    /\ Range(s) = StoredIds(g)
    /\ Len(s) = Cardinality(StoredIds(g))
    /\ Ascending(s)

\* the limits a request may carry that the stored histories distinguish
LimitsChecked == (1..MaxLog) \cup {MaxLimit}

\* C8 as stated: the pages 1, 2, .., totalPages concatenated in page order are
\* the group's full history in ascending creation order.
C8_PagesInOrderAreHistory ==
    PageAnswered =>
        \A L \in LimitsChecked :
            FullHistory(ConcatPages(last.group, L, TotalPages(last.group, L)), last.group)

\* C8 amended: the pages 1 .. totalPages together hold every stored message
\* exactly once, and concatenated from the last page to the first they are
\* the group's full history in ascending creation order.
C8_PagesBackwardsAreHistory ==
    PageAnswered =>
        \A L \in LimitsChecked :
            LET fwd == ConcatPages(last.group, L, TotalPages(last.group, L)) IN
            /\ Range(fwd) = StoredIds(last.group)
            /\ Len(fwd) = Cardinality(StoredIds(last.group))
            /\ FullHistory(ConcatPagesBack(last.group, L, 1), last.group)

\* C8 happens: the last of at least two pages was answered
C8_Witness ==
    /\ PageAnswered
    /\ last.info.pagination.totalPages >= 2
    /\ last.info.page = last.info.pagination.totalPages
    /\ Len(last.info.messages) >= 1

\* the metadata formulas of the answered page
PageMetadata ==
    LET p == last.info.page
        L == last.info.limit
        meta == last.info.pagination
        total == Cardinality(StoredIds(last.group))
    IN /\ p >= 1 /\ L \in 1..MaxLimit
       /\ meta.currentPage = p
       /\ meta.totalMessages = total
       /\ meta.totalPages * L >= total
       /\ (meta.totalPages - 1) * L < total
       /\ meta.totalPages >= 0
       /\ meta.hasNext = (p < meta.totalPages)
       /\ meta.hasPrev = (p > 1)

\* some stored message of the group is older than every message on the page
OlderThanPage ==
    \E x \in StoredIds(last.group) : \A y \in Range(last.info.messages) : x < y

\* C9 as stated: the metadata formulas hold and hasNext is true exactly when
\* some stored message is older than every message on the returned page.
C9_HasNextIffOlder ==
    PageAnswered =>
        /\ PageMetadata
        /\ last.info.pagination.hasNext = OlderThanPage

\* C9 amended: the metadata formulas hold and hasNext is true exactly when the
\* returned page is not empty and some stored message is older than every
\* message on it.
C9_HasNextIffOlderNonEmpty ==
    PageAnswered =>
        /\ PageMetadata
        /\ last.info.pagination.hasNext
              = (last.info.messages # <<>> /\ OlderThanPage)

\* C9 happens: a page with both a next and a previous page was answered
C9_Witness ==
    /\ PageAnswered
    /\ last.info.pagination.hasNext
    /\ last.info.pagination.hasPrev
    /\ last.info.messages # <<>>

\* C3: each (user, group) pair has at most one membership row, active or not.
C3_OneRowPerPair ==
    \A u \in UserIds, g \in GroupIds :
        \A r1, r2 \in FindMember(members, u, g) : r1 = r2 /\ CopiesIn(r1, members) = 1

\* C3 happens: of two requests inserting the same pair one was rejected by the
\* index, and the pair's row is stored
C3_Witness ==
    /\ last.info = "E11000"
    /\ last.op \in {"login", "getMainChat", "acceptInvitation", "signup", "createUser"}
    /\ last.user \in UserIds /\ last.group \in GroupIds
    /\ FindMember(members, last.user, last.group) # {}

\* C11: no two groups carry the same name.
C11_UniqueNames ==
    \A g, h \in GroupIds :
        (Live(groups, g) /\ Live(groups, h) /\ groups[g].name = groups[h].name) => g = h

\* the stored references to a group
RefersTo(g) ==
    \/ \E row \in Rows : row.group = g
    \/ \E i \in DOMAIN messages : messages[i].group = g

\* C12: once deleteGroup or deleteGroupPublic has answered success for a
\* group, no membership row and no message referring to that group is stored.
C12_NothingLeftAfterDelete ==
    (last.op \in DeleteOps /\ last.status = 200) => ~RefersTo(last.group)

\* a deletion of group g has operations that have not settled yet
DeletionPending(g) ==
    \E s \in Slots : /\ inflight[s].op \in DeleteOps
                     /\ inflight[s].group = g
                     /\ inflight[s].pc \in {"Promise.all", "detached"}

\* C13: when one of the three store deletions of deleteGroup has failed and
\* the others have settled, the store does not hold the group record deleted
\* together with messages or memberships that still refer to the group.
C13_NoHalfDeletedGroup ==
    (/\ last.op \in DeleteOps
     /\ last.status = 500
     /\ last.info = "failed"
     /\ ~DeletionPending(last.group))
        => ~(groups[last.group].state = "gone" /\ RefersTo(last.group))

\* C14: in no state of a group that exists and is not being deleted does an
\* invited user hold a membership row while the invitation is still pending,
\* nor an accepted invitation without a membership row.
C14_AcceptAllOrNothing ==
    \A u \in UserIds, g \in GroupIds :
        (Live(groups, g) /\ ~DeletionPending(g)) =>
            /\ (Invited(groups[g], u, {"pending"}) # {} => FindMember(members, u, g) = {})
            /\ (Invited(groups[g], u, {"accepted"}) # {} => FindMember(members, u, g) # {})

\* C15: a request whose membership insert the store rejected as a duplicate
\* of the (user, group) pair is answered 409.
C15_DuplicateMemberIs409 ==
    (last.op \in {"acceptInvitation", "getMainChat", "login", "signup", "createUser",
                  "createGroup"}
        /\ last.info = "E11000") => last.status = 409

\* the requests reserved to a group's admins
AdminOps == {"updateGroup", "updateGroupPublic", "deleteGroup", "deleteGroupPublic",
             "inviteToGroup", "removeMember"}

\* the caller holds an active membership with role admin in the group
ActiveAdmin(u, g) ==
    \E row \in Rows : row.user = u /\ row.group = g /\ row.role = "admin" /\ row.isActive

\* C16: a step of updateGroup, deleteGroup, inviteToGroup or removeMember (or
\* of the public update and delete routes) changes the store only when its
\* caller holds an active admin membership in the group at that moment.
C16_OnlyActiveAdminsChange ==
    [][(last'.op \in AdminOps /\ store' # store) => ActiveAdmin(last'.user, last'.group)]_vars

\* the request body sendMessage was called with passes the validation
SendValid(content, type) == validateSendMessage(content, type).ok

\* C17: sendMessage answers 400 exactly when its content or type is invalid,
\* whatever the caller's membership and the group; a valid send by a caller
\* without active membership answers 403; a valid send by an active member
\* row's holder to a group that is not in the store answers 404.
C17_FailureOrder ==
    [][last'.op = "sendMessage" =>
          LET u == last'.user
              g == last'.group
          IN \A c \in BodyContents, ty \in BodyTypes :
                PostSend(u, g, c, ty) =>
                   /\ (~SendValid(c, ty) => last'.status = 400)
                   /\ (SendValid(c, ty) /\ ~ActiveMember(u, g) => last'.status = 403)
                   /\ (SendValid(c, ty) /\ ActiveMember(u, g) /\ ~Live(groups, g)
                          => last'.status = 404)
                   /\ (SendValid(c, ty) /\ ActiveMember(u, g) /\ Live(groups, g)
                          => last'.status = 201)]_vars

\* each of the three failures has been answered, the 400 to a non-member of
\* a missing group as well
C17_Witness ==
    /\ last.op = "sendMessage"
    /\ last.status = 404
    /\ last.info.valid /\ last.info.active
    /\ ~Live(groups, last.group)

\* the step is the send or edit route called with content c (and, for a
\* send, type ty)
Requested(c, ty) ==
    \/ last'.op = "sendMessage" /\ PostSend(last'.user, last'.group, c, ty)
    \/ last'.op = "editMessage" /\ ty = "undefined"
          /\ PutMessage(last'.user, last'.info.id, c)

BadType(ty) == ty \notin {"undefined", "text", "image", "file", "system"}

\* C18 as stated: a send or edit whose content is empty after trimming or
\* longer than 1000 characters, or a send whose type is not a message type,
\* answers 400 and leaves the message log as it was.
C18_InvalidRejected ==
    [][last'.op \in {"sendMessage", "editMessage"} =>
          \A c \in BodyContents, ty \in BodyTypes :
              (Requested(c, ty) /\ (Len(Trim(c)) = 0 \/ Len(c) > MaxContentLength \/ BadType(ty)))
                  => (last'.status = 400 /\ messages' = messages)]_vars

\* C18 amended: the length that counts is the length after trimming.
C18_InvalidAfterTrimRejected ==
    [][last'.op \in {"sendMessage", "editMessage"} =>
          \A c \in BodyContents, ty \in BodyTypes :
              (Requested(c, ty)
                 /\ (Len(Trim(c)) = 0 \/ Len(Trim(c)) > MaxContentLength \/ BadType(ty)))
                  => (last'.status = 400 /\ messages' = messages)]_vars

\* the sender of a stored message has had an edit of it refused for its
\* content
C18_Witness ==
    /\ last.op = "editMessage"
    /\ last.status = 400
    /\ \E i \in DOMAIN messages :
          messages[i].id = last.info.id /\ messages[i].sender = last.user

\* an edit that succeeded came from the sender and left everything but the
\* content and updatedAt of the one message as it was
EditedOnlyContent(i) ==
    /\ messages[i].sender = last'.user
    /\ DOMAIN messages' = DOMAIN messages
    /\ \A k \in DOMAIN messages : k # i => messages'[k] = messages[k]
    /\ messages'[i] = [messages[i] EXCEPT !.content = messages'[i].content,
                                          !.updatedAt = messages'[i].updatedAt]

\* C20 as stated: an edit by anyone but the message's sender answers 403 and
\* leaves the message as it was; an edit that succeeds was asked by the
\* sender and changes only the content and updatedAt.
C20_OnlySenderEdits ==
    [][last'.op = "editMessage" =>
          \A i \in DOMAIN messages :
              messages[i].id = last'.info.id =>
                  /\ messages[i].sender # last'.user
                        => (last'.status = 403 /\ messages' = messages)
                  /\ last'.status = 200 => EditedOnlyContent(i)]_vars

\* C20 amended: an edit by anyone but the sender never succeeds and leaves
\* the message as it was; it answers 403 when its content passes the
\* validation and 400 when it does not.
C20_OnlySenderEditsValid ==
    [][last'.op = "editMessage" =>
          \A i \in DOMAIN messages, c \in BodyContents :
              (messages[i].id = last'.info.id /\ PutMessage(last'.user, last'.info.id, c)) =>
                  /\ messages[i].sender # last'.user
                        => /\ messages' = messages
                           /\ last'.status = IF validateEditMessage(c).ok THEN 403 ELSE 400
                  /\ last'.status = 200 => EditedOnlyContent(i)]_vars

\* an active admin of the group has been refused the edit of a member's
\* message
C20_Witness ==
    /\ last.op = "editMessage"
    /\ last.status = 403
    /\ \E i \in DOMAIN messages :
          /\ messages[i].id = last.info.id
          /\ messages[i].sender # last.user
          /\ ActiveAdmin(last.user, messages[i].group)

\* the users with a receipt on a message
ReceiptUsers(m) == {m.readBy[i].user : i \in DOMAIN m.readBy}

\* readBy: [{ user: userId, readAt: new Date() }] of the 201 response
ReturnedReadBy == {last.user}

\* C19: when sendMessage has answered 201, the message it created is stored
\* with a receipt of its sender, and the users of the stored receipts are
\* the readBy the response returned.
C19_ReceiptOnSuccess ==
    (last.op = "sendMessage" /\ last.status = 201) =>
        \E i \in DOMAIN messages :
            /\ ToString(messages[i].id) = last.info
            /\ HasReceipt(messages[i], last.user)
            /\ ReceiptUsers(messages[i]) = ReturnedReadBy

\* C21: deleteMessage of a stored message removes it, and only it, when the
\* caller is its sender or holds an active admin membership in its group;
\* for every other caller it answers 403 and the log stays as it was.
C21_SenderOrAdminDeletes ==
    [][last'.op = "deleteMessage" =>
          \A i \in DOMAIN messages :
              deleteMessage(last'.user, messages[i].id) =>
                  IF \/ messages[i].sender = last'.user
                     \/ ActiveAdmin(last'.user, messages[i].group)
                  THEN /\ last'.status = 200
                       /\ messages' = SelectSeq(messages, LAMBDA m : m.id # messages[i].id)
                  ELSE /\ last'.status = 403
                       /\ messages' = messages]_vars

\* an active member who is neither the sender nor an admin has been refused
C21_Witness ==
    /\ last.op = "deleteMessage"
    /\ last.status = 403
    /\ ActiveMember(last.user, last.group)
    /\ ~ActiveAdmin(last.user, last.group)

\* C22: no group holds two invitation entries for the same user.
C22_OneInvitationPerUser ==
    \A g \in GroupIds, u \in UserIds :
        Live(groups, g) => Cardinality(Invited(groups[g], u, InviteStatuses)) <= 1

\* C23: the list getGroupMembers returns holds the group's active members,
\* every admin before every moderator or member, and members of equal role
\* in the order of their joinedAt.
C23_AdminsFirstThenJoinTime ==
    (last.op = "getGroupMembers" /\ last.status = 200) =>
        LET L == last.info IN
        /\ {L[i] : i \in DOMAIN L} = {r \in Rows : r.group = last.group /\ r.isActive}
        /\ \A i, j \in DOMAIN L :
              i < j => /\ ~(L[j].role = "admin" /\ L[i].role # "admin")
                       /\ (L[i].role = L[j].role => L[i].joinedAt <= L[j].joinedAt)

\* C24: when getMainChat has answered success, the group it returned exists,
\* is named "Main Chat", and the caller holds an active membership in it.
C24_MainChatMemberAfterSuccess ==
    (last.op = "getMainChat" /\ last.status = 200) =>
        /\ Live(groups, last.group)
        /\ groups[last.group].name = MAIN_CHAT
        /\ ActiveMember(last.user, last.group)

\* C25: the totalMessages of a successful getGroupMessages equals the number
\* of messages stored when its page was read (the first page with the default
\* limit holds every message stored at that moment).
C25_TotalMatchesPage ==
    (last.op = "getGroupMessages" /\ last.status = 200) =>
        \E S \in SUBSET (0..MaxFlightTime) :
            last.info = PageText(S) \o "/" \o ToString(Cardinality(S))

\* C26: a markMessagesAsRead that answers success with markedCount = k has
\* added or found the caller's receipt on k existing messages, so at least k
\* stored messages carry a receipt of the caller afterwards.
C26_MarkedCountIsReceipts ==
    (last.op = "markMessagesAsRead" /\ last.status = 200) =>
        last.info.markedCount <=
            Cardinality({i \in DOMAIN messages : HasReceipt(messages[i], last.user)})

\* the receipts on a message that are not user u's
ReceiptsOfOthers(m, u) == SelectSeq(m.readBy, LAMBDA e : e.user # u)

\* C27: a successful getGroupMessages leaves every message of the returned
\* page with a receipt of the caller; no message is added or removed, the
\* messages outside the page are unchanged, and every message keeps its
\* content, sender, group and the receipts of the other users.
C27_ListingMarksOnlyItsPage ==
    [][(last'.op = "getGroupMessages" /\ last'.status = 200) =>
          LET page == {last'.info.messages[k] : k \in DOMAIN last'.info.messages}
              u == last'.user
          IN /\ DOMAIN messages' = DOMAIN messages
             /\ \A i \in DOMAIN messages :
                   /\ messages'[i].id = messages[i].id
                   /\ messages'[i].content = messages[i].content
                   /\ messages'[i].sender = messages[i].sender
                   /\ messages'[i].group = messages[i].group
                   /\ ReceiptsOfOthers(messages'[i], u) = ReceiptsOfOthers(messages[i], u)
                   /\ (messages[i].id \in page => HasReceipt(messages'[i], u))
                   /\ (messages[i].id \notin page => messages'[i] = messages[i])]_vars

\* a page was returned that leaves messages of its group outside and holds a
\* message another user had read
C27_Witness ==
    /\ last.op = "getGroupMessages" /\ last.status = 200
    /\ LET page == {last.info.messages[k] : k \in DOMAIN last.info.messages} IN
       /\ \E i \in DOMAIN messages :
             messages[i].group = last.group /\ messages[i].id \notin page
       /\ \E i \in DOMAIN messages :
             /\ messages[i].id \in page
             /\ HasReceipt(messages[i], last.user)
             /\ ReceiptsOfOthers(messages[i], last.user) # <<>>

\* C28: a receipt on a message belongs to a user who holds an active
\* membership in the message's group (memberships do not change here, so a
\* user who is not a member of H never gets a receipt onto a message of H).
C28_ReceiptsStayInGroup ==
    \A i \in DOMAIN messages :
        \A k \in DOMAIN messages[i].readBy :
            ActiveMember(messages[i].readBy[k].user, messages[i].group)

\* a (user, group) pair whose row is deactivated
Deactivated(ms, u, g) ==
    FindMember(ms, u, g) # {} /\ \A r \in FindMember(ms, u, g) : ~r.isActive

\* C29: removeMember deletes no membership row; a pair whose row is
\* deactivated stays deactivated for as long as it has a row; and a login or
\* getMainChat of a user deactivated in the group it answers with succeeds
\* and returns that group's messages.
C29_DeactivationIsPermanent ==
    [][/\ \A u \in UserIds, g \in GroupIds :
             (Deactivated(members, u, g) /\ FindMember(members', u, g) # {})
                 => Deactivated(members', u, g)
       /\ (last'.op = "removeMember" =>
             /\ BagCardinality(members') = BagCardinality(members)
             /\ \A u \in UserIds, g \in GroupIds :
                   FindMember(members, u, g) # {} => FindMember(members', u, g) # {})
       /\ (/\ last'.op \in {"login", "getMainChat"}
           /\ Deactivated(members, last'.user, last'.group)) =>
             /\ last'.status = 200
             /\ last'.info.messages = Ids(InGroup(messages', last'.group))]_vars

\* a user removed from a group that holds messages has called getMainChat or
\* logged in, was answered with the messages, and the row is still inactive
C29_Witness ==
    /\ last.op \in {"login", "getMainChat"} /\ last.status = 200
    /\ Deactivated(members, last.user, last.group)
    /\ last.info.messages # <<>>

\* C30: the active memberships of a group never outnumber its maxMembers.
C30_WithinCapacity ==
    \A g \in GroupIds :
        Live(groups, g) =>
            BagCardinality(DeleteMembers(members, LAMBDA r : ~(r.group = g /\ r.isActive)))
                <= groups[g].maxMembers

====
